---- MODULE Spec2Model ----
(***************************************************************************)
(* Model of the librarian's CreateClone background task                    *)
(* (src/librarian_background/create_clone.py).  One run of on_call is      *)
(* broken at its store-capability calls and at its session.commit() points *)
(* so that the persisted rows can be observed between protocol steps.      *)
(*                                                                         *)
(* The standing-order manager and the standing-order administration        *)
(* (src/server/librarian_server/search.py) are modelled on their own       *)
(* variables, under the specifications SpecManager and SpecOrders.         *)
(***************************************************************************)
EXTENDS Integers, Sequences, FiniteSets, TLC

\* ---------------------------------------------------------------- bounds
MaxFiles == 2    \* files known to the librarian, each with one source Instance
NumTMs   == 2    \* transfer managers configured on the destination store
MaxRuns  == 2    \* scheduled invocations of on_call that get past get_store
MaxTicks == 1    \* days that may pass while the job is idle

\* ------------------------------------------------- configuration of the job
clone_from  == "A"
clone_to    == "B"
age_in_days == 2

NULL == 0                       \* a nullable column that is not set
Files == 1 .. MaxFiles
StoreNames == {clone_from, clone_to}
TransferManagers == 1 .. NumTMs \* store_to.transfer_managers, in items() order
StartDay == MaxFiles            \* the day the model starts at

\* ------------------------------------------- constants of search.py
MIN_STANDING_ORDER_INTERVAL  == 1200   \* seconds
DEFAULT_STANDING_ORDER_DELAY == 90     \* seconds
CHECKIN_INTERVAL             == 600    \* seconds, the PeriodicCallback's period
StartTime == MIN_STANDING_ORDER_INTERVAL  \* time.time() when the server starts

VARIABLES
    stores,              \* names that resolve to a StoreMetadata row
    instances,           \* Instance table; the row's id is its index
    transfers,           \* CloneTransfer table; the row's id is its index
    jobScheduled,        \* the recurring job is still on the schedule
    now,                 \* datetime.datetime.now(), in days
    pc,                  \* position of on_call
    selected,            \* on_call: instances (ids, in query order)
    idx,                 \* on_call: position of the for loop in selected
    transfer,            \* on_call: transfer (row id), NULL before the first
    staging_name,        \* on_call: staging_name returned by stage
    success,             \* on_call: success
    tm_name,             \* on_call: tm_name, the inner loop's variable
    tmIdx,               \* on_call: position of the inner loop
    successful_clones,   \* on_call: successful_clones
    unnecessary_clones,  \* on_call: unnecessary_clones
    stagingAreas,        \* staging areas reserved on clone_to and not unstaged
    calls,               \* history: capability calls made for `transfer`
    needed,              \* history: per examined instance, was a clone needed
    instOrigin,          \* history: per Instance row, the transfer that made it
    runStart             \* history: per run, the table sizes when it started

cloneVars == << stores, instances, transfers, jobScheduled, now, pc, selected, idx,
                transfer, staging_name, success, tm_name, tmIdx, successful_clones,
                unnecessary_clones, stagingAreas, calls, needed, instOrigin, runStart >>

\* ---- the standing-order manager and the standing orders (search.py)
VARIABLES
    clock,               \* time.time(), in seconds
    last_check,          \* StandingOrderManager.last_check
    launch_queued,       \* StandingOrderManager.launch_queued
    timeouts,            \* IOLoop: due times of the scheduled _launch_copy_timeout
    nextCheckin,         \* IOLoop: due time of the PeriodicCallback
    mode,                \* app.config['standing_order_mode']
    utcoffset,           \* hours that local time is ahead of UTC
    storders,            \* StandingOrder table, in id order
    flashed,             \* the last administrative request and what it flashed
    lastQueue,           \* history: what the last queue_launch_copy call found
    unserved,            \* history: a request not yet followed by an evaluation
    lastCall,            \* history: what the last maybe_launch_copies call did
    evalTimes            \* history: the times of the real evaluations

soVars == << clock, last_check, launch_queued, timeouts, nextCheckin, mode,
             utcoffset, storders, flashed, lastQueue, unserved, lastCall,
             evalTimes >>

\* ---- the destination store's files that no Instance row stands for
VARIABLES
    orphans              \* Files committed on clone_to by a run that was
                         \* interrupted before it added the Instance row

\* ---- one compilation of a search and the query made of it
VARIABLES
    the_search,          \* the data handed to compile()
    query_type,          \* "files" or "obs": the compiler that is asked
    outcome,             \* "idle" | "submitted" | "compiled" | "failed" | "run"
    raised,              \* the ServerError compile() raised, NoError without
    rows                 \* the rows the query returned

compileVars == << the_search, query_type, outcome, raised, rows >>

\* ---- one evaluation of a standing order's get_files_to_copy
VARIABLES
    so_row,              \* the StandingOrder evaluated: name and search text
    file_events,         \* the FileEvent table: (name, type)
    active_tasks,        \* the_task_manager.tasks
    yielded,             \* the Files get_files_to_copy yielded
    copy_pc              \* "idle" | "called" | "done"

copyVars == << so_row, file_events, active_tasks, yielded, copy_pc >>

\* ---- the background task runner (librarian_server/__init__.py)
VARIABLES
    worker_pool,         \* _worker_pool: "none" | "open" | "closed" | "joined"
    bg_tasks,            \* the tasks launched, in launch order
    callbacks,           \* the control loop's queue of callbacks
    main_pc              \* commandline: "idle" | "loop" | "after_loop" |
                         \* "joining" | "exited"

taskVars == << worker_pool, bg_tasks, callbacks, main_pc >>

restVars == << compileVars, copyVars, taskVars >>

otherVars == << orphans, restVars >>

vars == << cloneVars, soVars, otherVars >>

dbVars    == << stores, instances, transfers, instOrigin >>
localVars == << selected, idx, transfer, staging_name, success, tm_name, tmIdx,
                successful_clones, unnecessary_clones >>

\* ------------------------------------------------------------- the records
DeletionPolicyOf(f) == IF f % 2 = 1 THEN "DISALLOWED" ELSE "ALLOWED"

\* Instance.new_instance(path, file, store, deletion_policy)
new_instance(file, store, deletion_policy, t) ==
    [file |-> file, store |-> store, deletion_policy |-> deletion_policy,
     created_time |-> t]

\* CloneTransfer.new_transfer(source_store_id, destination_store_id, source_instance_id)
new_transfer(source_store_id, destination_store_id, source_instance_id) ==
    [source_store_id |-> source_store_id,
     destination_store_id |-> destination_store_id,
     source_instance_id |-> source_instance_id,
     destination_instance_id |-> NULL,
     transfer_manager_name |-> NULL,
     status |-> "PENDING",
     end_time |-> NULL]

\* CloneTransfer.fail_transfer(), applied to row t of table ts
fail_transfer(ts, t) == [ts EXCEPT ![t].status = "FAILED"]

\* get_store(name): does the name resolve to a StoreMetadata row
get_store(name) == name \in stores

\* query(Instance).filter(store == s).filter(file == f).first() is not None
HasInstanceOn(insts, s, f) ==
    \E i \in 1 .. Len(insts) : insts[i].store = s /\ insts[i].file = f

\* query(Instance).filter(store == store_from).filter(created_time > start_time).all()
RECURSIVE SelectFrom(_, _, _)
SelectFrom(insts, i, start_time) ==
    IF i > Len(insts) THEN << >>
    ELSE IF insts[i].store = clone_from /\ insts[i].created_time > start_time
         THEN << i >> \o SelectFrom(insts, i + 1, start_time)
         ELSE SelectFrom(insts, i + 1, start_time)

Call(op, using, res) == [op |-> op, using |-> using, res |-> res]

\* -------------------------------------------------------------------- Init
SourceInstances ==
    [f \in Files |-> new_instance(f, clone_from, DeletionPolicyOf(f), f)]

\* The tables and the job before the first invocation of on_call.
CloneInit ==
    /\ stores = StoreNames
    /\ \E pre \in [Files -> BOOLEAN] :
         LET OnDest(r) == pre[r.file]
             dest == [f \in Files |-> new_instance(f, clone_to, "DISALLOWED", f)]
         IN instances = SourceInstances \o SelectSeq(dest, OnDest)
    /\ instOrigin = [i \in 1 .. Len(instances) |-> NULL]
    /\ transfers = << >>
    /\ jobScheduled = TRUE
    /\ now = StartDay
    /\ pc = "idle"
    /\ selected = << >>
    /\ idx = 0
    /\ transfer = NULL
    /\ staging_name = NULL
    /\ success = FALSE
    /\ tm_name = NULL
    /\ tmIdx = 0
    /\ successful_clones = 0
    /\ unnecessary_clones = 0
    /\ stagingAreas = {}
    /\ calls = << >>
    /\ needed = << >>
    /\ runStart = << >>

\* flashed before any administrative request.
NoRequest == [n |-> 0, op |-> "none", search |-> NULL, msg |-> "none"]

\* lastQueue before any call of queue_launch_copy.
NoQueue == [n |-> 0, was_queued |-> FALSE]

\* lastCall before any call of maybe_launch_copies.
NoCall == [n |-> 0, ret |-> "none", evaluated |-> << >>, checked |-> FALSE]

\* The standing-order manager when the server starts (search.py lines 498-499,
\* 552), in `normal` mode and with no standing order persisted.
ManagerBoot ==
    /\ clock = StartTime
    /\ last_check = 0
    /\ launch_queued = FALSE
    /\ timeouts = << >>
    /\ nextCheckin = StartTime + CHECKIN_INTERVAL
    /\ mode = "normal"
    /\ utcoffset = 0
    /\ storders = << >>
    /\ flashed = NoRequest
    /\ lastQueue = NoQueue
    /\ unserved = FALSE
    /\ lastCall = NoCall
    /\ evalTimes = << >>

\* The state of everything a specification does not move.
CompileIdle ==
    /\ the_search = NULL
    /\ query_type = "files"
    /\ outcome = "idle"
    /\ raised = NULL
    /\ rows = {}

CopyIdle ==
    /\ so_row = NULL
    /\ file_events = {}
    /\ active_tasks = << >>
    /\ yielded = {}
    /\ copy_pc = "idle"

TasksIdle ==
    /\ worker_pool = "none"
    /\ bg_tasks = << >>
    /\ callbacks = << >>
    /\ main_pc = "idle"

RestIdle == CompileIdle /\ CopyIdle /\ TasksIdle

OthersIdle ==
    /\ orphans = {}
    /\ RestIdle

Init == CloneInit /\ ManagerBoot /\ OthersIdle

\* ------------------------------------------------------------- environment
\* A day passes while the job waits for its next scheduled invocation.
Tick ==
    /\ pc = "idle"
    /\ jobScheduled
    /\ now < StartDay + MaxTicks
    /\ now' = now + 1
    /\ UNCHANGED << soVars, otherVars, dbVars, localVars, jobScheduled, pc, stagingAreas, calls,
                    needed, runStart >>

\* A configured store disappears from the StoreMetadata table.
DropStore(s) ==
    /\ pc = "idle"
    /\ jobScheduled
    /\ s \in stores
    /\ stores' = stores \ {s}
    /\ UNCHANGED << soVars, otherVars, instances, transfers, instOrigin, localVars, jobScheduled,
                    now, pc, stagingAreas, calls, needed, runStart >>

\* A store that disappeared is registered again.
RestoreStore(s) ==
    /\ pc = "idle"
    /\ s \notin stores
    /\ stores' = stores \cup {s}
    /\ UNCHANGED << soVars, otherVars, instances, transfers, instOrigin, localVars,
                    jobScheduled, now, pc, stagingAreas, calls, needed,
                    runStart >>

\* ----------------------------------------------------------------- on_call
\* Lines 46-63: a store name does not resolve; return CancelJob.
GetStoreFails ==
    /\ pc = "idle"
    /\ jobScheduled
    /\ ~ (get_store(clone_from) /\ get_store(clone_to))
    /\ jobScheduled' = FALSE
    /\ UNCHANGED << soVars, otherVars, dbVars, localVars, now, pc, stagingAreas, calls, needed,
                    runStart >>

\* Lines 46-77: both stores resolve; select the instances in the age window.
\* SelectInstances without the two get_store checks of lines 48-63.
SelectInstancesUnguarded ==
    /\ pc = "idle"
    /\ jobScheduled
    /\ Len(runStart) < MaxRuns
    /\ selected' = SelectFrom(instances, 1, now - age_in_days)
    /\ idx' = 1
    /\ successful_clones' = 0
    /\ unnecessary_clones' = 0
    /\ runStart' = Append(runStart, [t |-> Len(transfers), i |-> Len(instances)])
    /\ pc' = "loop"
    /\ UNCHANGED << soVars, otherVars, dbVars, jobScheduled, now, transfer, staging_name, success,
                    tm_name, tmIdx, stagingAreas, calls, needed >>

SelectInstances ==
    /\ pc = "idle"
    /\ jobScheduled
    /\ Len(runStart) < MaxRuns
    /\ get_store(clone_from) /\ get_store(clone_to)
    /\ selected' = SelectFrom(instances, 1, now - age_in_days)
    /\ idx' = 1
    /\ successful_clones' = 0
    /\ unnecessary_clones' = 0
    /\ runStart' = Append(runStart, [t |-> Len(transfers), i |-> Len(instances)])
    /\ pc' = "loop"
    /\ UNCHANGED << soVars, otherVars, dbVars, jobScheduled, now, transfer, staging_name, success,
                    tm_name, tmIdx, stagingAreas, calls, needed >>

\* Lines 79-92: the File already has an Instance on clone_to; continue.
\* SkipExisting that counts the skipped instance as a successful clone.
SkipExistingCountsSuccessful ==
    /\ pc = "loop"
    /\ idx <= Len(selected)
    /\ HasInstanceOn(instances, clone_to, instances[selected[idx]].file)
    /\ successful_clones' = successful_clones + 1
    /\ needed' = Append(needed, FALSE)
    /\ idx' = idx + 1
    /\ UNCHANGED << soVars, otherVars, dbVars, jobScheduled, now, pc, selected, transfer,
                    staging_name, success, tm_name, tmIdx, unnecessary_clones,
                    stagingAreas, calls, runStart >>

SkipExisting ==
    /\ pc = "loop"
    /\ idx <= Len(selected)
    /\ HasInstanceOn(instances, clone_to, instances[selected[idx]].file)
    /\ unnecessary_clones' = unnecessary_clones + 1
    /\ needed' = Append(needed, FALSE)
    /\ idx' = idx + 1
    /\ UNCHANGED << soVars, otherVars, dbVars, jobScheduled, now, pc, selected, transfer,
                    staging_name, success, tm_name, tmIdx, successful_clones,
                    stagingAreas, calls, runStart >>

\* Lines 79-101: no Instance on clone_to; add a CloneTransfer row and commit.
\* CreateTransfer that takes up a FAILED row of the same source instance again
\* instead of adding a row.
CreateTransferReusesFailed ==
    /\ pc = "loop"
    /\ idx <= Len(selected)
    /\ ~ HasInstanceOn(instances, clone_to, instances[selected[idx]].file)
    /\ LET old == {t \in 1 .. Len(transfers) :
                      /\ transfers[t].source_instance_id = selected[idx]
                      /\ transfers[t].status = "FAILED"}
       IN IF old = {}
          THEN /\ transfers' = Append(transfers,
                          new_transfer(clone_from, clone_to, selected[idx]))
               /\ transfer' = Len(transfers) + 1
          ELSE LET t == CHOOSE x \in old : TRUE
               IN /\ transfers' = [transfers EXCEPT ![t].status = "PENDING"]
                  /\ transfer' = t
    /\ needed' = Append(needed, TRUE)
    /\ calls' = << >>
    /\ pc' = "stage"
    /\ UNCHANGED << soVars, otherVars, stores, instances, instOrigin, jobScheduled, now, selected,
                    idx, staging_name, success, tm_name, tmIdx,
                    successful_clones, unnecessary_clones, stagingAreas,
                    runStart >>

\* CreateTransfer without the check of lines 79-90 for an Instance on clone_to.
CreateTransferUnchecked ==
    /\ pc = "loop"
    /\ idx <= Len(selected)
    /\ transfers' = Append(transfers,
                           new_transfer(clone_from, clone_to, selected[idx]))
    /\ transfer' = Len(transfers) + 1
    /\ needed' = Append(needed, TRUE)
    /\ calls' = << >>
    /\ pc' = "stage"
    /\ UNCHANGED << soVars, otherVars, stores, instances, instOrigin,
                    jobScheduled, now, selected, idx, staging_name, success,
                    tm_name, tmIdx, successful_clones, unnecessary_clones,
                    stagingAreas, runStart >>

CreateTransfer ==
    /\ pc = "loop"
    /\ idx <= Len(selected)
    /\ ~ HasInstanceOn(instances, clone_to, instances[selected[idx]].file)
    /\ transfers' = Append(transfers,
                           new_transfer(clone_from, clone_to, selected[idx]))
    /\ transfer' = Len(transfers) + 1
    /\ needed' = Append(needed, TRUE)
    /\ calls' = << >>
    /\ pc' = "stage"
    /\ UNCHANGED << soVars, otherVars, stores, instances, instOrigin, jobScheduled, now, selected,
                    idx, staging_name, success, tm_name, tmIdx,
                    successful_clones, unnecessary_clones, stagingAreas,
                    runStart >>

\* StageRejected that falls through to the transfer instead of continuing.
StageRejectedFallsThrough ==
    /\ pc = "stage"
    /\ calls' = Append(calls, Call("stage", NULL, "reject"))
    /\ transfers' = fail_transfer(transfers, transfer)
    /\ success' = FALSE
    /\ tmIdx' = 1
    /\ pc' = "transfer_out"
    /\ UNCHANGED << soVars, otherVars, stores, instances, instOrigin, jobScheduled, now, selected,
                    idx, transfer, staging_name, tm_name, successful_clones,
                    unnecessary_clones, stagingAreas, needed, runStart >>

\* StageRejected that leaves the for loop (break) instead of continuing.
StageRejectedBreaks ==
    /\ pc = "stage"
    /\ calls' = Append(calls, Call("stage", NULL, "reject"))
    /\ transfers' = fail_transfer(transfers, transfer)
    /\ pc' = "summary"
    /\ UNCHANGED << soVars, otherVars, stores, instances, instOrigin, jobScheduled, now, selected,
                    idx, transfer, staging_name, success, tm_name, tmIdx,
                    successful_clones, unnecessary_clones, stagingAreas, needed,
                    runStart >>

\* StageRejected without the call of fail_transfer.
StageRejectedNoFail ==
    /\ pc = "stage"
    /\ calls' = Append(calls, Call("stage", NULL, "reject"))
    /\ idx' = idx + 1
    /\ pc' = "loop"
    /\ UNCHANGED << soVars, otherVars, dbVars, jobScheduled, now, selected, transfer, staging_name,
                    success, tm_name, tmIdx, successful_clones,
                    unnecessary_clones, stagingAreas, needed, runStart >>

\* Lines 106-117: stage raises ValueError (the file does not fit).
StageRejected ==
    /\ pc = "stage"
    /\ calls' = Append(calls, Call("stage", NULL, "reject"))
    /\ transfers' = fail_transfer(transfers, transfer)
    /\ idx' = idx + 1
    /\ pc' = "loop"
    /\ UNCHANGED << soVars, otherVars, stores, instances, instOrigin, jobScheduled, now, selected,
                    transfer, staging_name, success, tm_name, tmIdx,
                    successful_clones, unnecessary_clones, stagingAreas, needed,
                    runStart >>

\* Lines 106-119: stage returns a staging area; success = False.
StageOk ==
    /\ pc = "stage"
    /\ calls' = Append(calls, Call("stage", NULL, "ok"))
    /\ staging_name' = transfer
    /\ stagingAreas' = stagingAreas \cup {transfer}
    /\ success' = FALSE
    /\ tmIdx' = 1
    /\ pc' = "transfer_out"
    /\ UNCHANGED << soVars, otherVars, dbVars, jobScheduled, now, selected, idx, transfer, tm_name,
                    successful_clones, unnecessary_clones, needed, runStart >>

\* Lines 121-127: transfer_out returns True for the loop's transfer manager.
TransferOutTrue ==
    /\ pc = "transfer_out"
    /\ tmIdx \in TransferManagers
    /\ tm_name' = tmIdx
    /\ calls' = Append(calls, Call("transfer_out", tmIdx, "true"))
    /\ success' = TRUE
    /\ tmIdx' = tmIdx + 1
    /\ UNCHANGED << soVars, otherVars, dbVars, jobScheduled, now, pc, selected, idx, transfer,
                    staging_name, successful_clones, unnecessary_clones,
                    stagingAreas, needed, runStart >>

\* Lines 121-136: transfer_out returns False; fail_transfer, continue.
TransferOutFalse ==
    /\ pc = "transfer_out"
    /\ tmIdx \in TransferManagers
    /\ tm_name' = tmIdx
    /\ calls' = Append(calls, Call("transfer_out", tmIdx, "false"))
    /\ success' = FALSE
    /\ transfers' = fail_transfer(transfers, transfer)
    /\ tmIdx' = tmIdx + 1
    /\ UNCHANGED << soVars, otherVars, stores, instances, instOrigin, jobScheduled, now, pc,
                    selected, idx, transfer, staging_name, successful_clones,
                    unnecessary_clones, stagingAreas, needed, runStart >>

\* Lines 121-144: transfer_out raises FileNotFoundError; success keeps its
\* value, fail_transfer, continue.
TransferOutNotFound ==
    /\ pc = "transfer_out"
    /\ tmIdx \in TransferManagers
    /\ tm_name' = tmIdx
    /\ calls' = Append(calls, Call("transfer_out", tmIdx, "notfound"))
    /\ transfers' = fail_transfer(transfers, transfer)
    /\ tmIdx' = tmIdx + 1
    /\ UNCHANGED << soVars, otherVars, stores, instances, instOrigin, jobScheduled, now, pc,
                    selected, idx, transfer, staging_name, success,
                    successful_clones, unnecessary_clones, stagingAreas, needed,
                    runStart >>

\* Lines 146-153: the loop is over and success is False; fail_transfer, continue.
TransferGivenUp ==
    /\ pc = "transfer_out"
    /\ tmIdx \notin TransferManagers
    /\ ~ success
    /\ transfers' = fail_transfer(transfers, transfer)
    /\ idx' = idx + 1
    /\ pc' = "loop"
    /\ UNCHANGED << soVars, otherVars, stores, instances, instOrigin, jobScheduled, now, selected,
                    transfer, staging_name, success, tm_name, tmIdx,
                    successful_clones, unnecessary_clones, stagingAreas, calls,
                    needed, runStart >>

\* Lines 146-158: the loop is over and success is True; record the manager,
\* set STAGED and commit the session.
MarkStaged ==
    /\ pc = "transfer_out"
    /\ tmIdx \notin TransferManagers
    /\ success
    /\ transfers' = [transfers EXCEPT ![transfer].transfer_manager_name = tm_name,
                                      ![transfer].status = "STAGED"]
    /\ pc' = "commit"
    /\ UNCHANGED << soVars, otherVars, stores, instances, instOrigin, jobScheduled, now, selected,
                    idx, transfer, staging_name, success, tm_name, tmIdx,
                    successful_clones, unnecessary_clones, stagingAreas, calls,
                    needed, runStart >>

\* CommitExists without the call of unstage.
CommitExistsNoUnstage ==
    /\ pc = "commit"
    /\ calls' = Append(calls, Call("commit", NULL, "exists"))
    /\ transfers' = fail_transfer(transfers, transfer)
    /\ idx' = idx + 1
    /\ pc' = "loop"
    /\ UNCHANGED << soVars, otherVars, stores, instances, instOrigin, jobScheduled, now, selected,
                    transfer, staging_name, success, tm_name, tmIdx,
                    successful_clones, unnecessary_clones, stagingAreas, needed,
                    runStart >>

\* Lines 161-173: commit raises FileExistsError; unstage, fail_transfer, continue.
CommitExists ==
    /\ pc = "commit"
    /\ calls' = calls \o << Call("commit", NULL, "exists"),
                            Call("unstage", NULL, "ok") >>
    /\ stagingAreas' = stagingAreas \ {staging_name}
    /\ transfers' = fail_transfer(transfers, transfer)
    /\ idx' = idx + 1
    /\ pc' = "loop"
    /\ UNCHANGED << soVars, otherVars, stores, instances, instOrigin, jobScheduled, now, selected,
                    transfer, staging_name, success, tm_name, tmIdx,
                    successful_clones, unnecessary_clones, needed, runStart >>

\* Lines 161-175: commit succeeds; unstage.
CommitOk ==
    /\ pc = "commit"
    /\ instances[selected[idx]].file \notin orphans
    /\ calls' = calls \o << Call("commit", NULL, "ok"),
                            Call("unstage", NULL, "ok") >>
    /\ stagingAreas' = stagingAreas \ {staging_name}
    /\ pc' = "new_instance"
    /\ UNCHANGED << soVars, otherVars, dbVars, localVars, jobScheduled, now, needed, runStart >>

\* CreateInstance that gives the new Instance the default deletion policy.
CreateInstanceDefaultPolicy ==
    /\ pc = "new_instance"
    /\ LET instance == instances[selected[idx]]
       IN instances' = Append(instances,
                              new_instance(instance.file, clone_to,
                                           "DISALLOWED", now))
    /\ instOrigin' = Append(instOrigin, transfer)
    /\ pc' = "complete"
    /\ UNCHANGED << soVars, otherVars, stores, transfers, localVars, jobScheduled, now,
                    stagingAreas, calls, needed, runStart >>

\* CreateInstance that records the new Instance on store_from.
CreateInstanceOnSource ==
    /\ pc = "new_instance"
    /\ LET instance == instances[selected[idx]]
       IN instances' = Append(instances,
                              new_instance(instance.file, clone_from,
                                           instance.deletion_policy, now))
    /\ instOrigin' = Append(instOrigin, transfer)
    /\ pc' = "complete"
    /\ UNCHANGED << soVars, otherVars, stores, transfers, localVars, jobScheduled, now,
                    stagingAreas, calls, needed, runStart >>

\* Lines 177-188: add the new Instance on clone_to and commit the session.
CreateInstance ==
    /\ pc = "new_instance"
    /\ LET instance == instances[selected[idx]]
       IN instances' = Append(instances,
                              new_instance(instance.file, clone_to,
                                           instance.deletion_policy, now))
    /\ instOrigin' = Append(instOrigin, transfer)
    /\ pc' = "complete"
    /\ UNCHANGED << soVars, otherVars, stores, transfers, localVars, jobScheduled, now,
                    stagingAreas, calls, needed, runStart >>

\* Lines 190-195: link the new Instance, set COMPLETED and commit the session.
CompleteTransfer ==
    /\ pc = "complete"
    /\ transfers' = [transfers EXCEPT
                        ![transfer].destination_instance_id = Len(instances),
                        ![transfer].status = "COMPLETED",
                        ![transfer].end_time = now]
    /\ successful_clones' = successful_clones + 1
    /\ idx' = idx + 1
    /\ pc' = "loop"
    /\ UNCHANGED << soVars, otherVars, stores, instances, instOrigin, jobScheduled, now, selected,
                    transfer, staging_name, success, tm_name, tmIdx,
                    unnecessary_clones, stagingAreas, calls, needed, runStart >>

\* Line 79: the for loop is exhausted.
LoopDone ==
    /\ pc = "loop"
    /\ idx > Len(selected)
    /\ pc' = "summary"
    /\ UNCHANGED << soVars, otherVars, dbVars, localVars, jobScheduled, now, stagingAreas, calls,
                    needed, runStart >>

\* Lines 197-204: log the summary and return; the locals are gone.
Summary ==
    /\ pc = "summary"
    /\ pc' = "idle"
    /\ selected' = << >>
    /\ idx' = 0
    /\ transfer' = NULL
    /\ staging_name' = NULL
    /\ success' = FALSE
    /\ tm_name' = NULL
    /\ tmIdx' = 0
    /\ successful_clones' = 0
    /\ unnecessary_clones' = 0
    /\ calls' = << >>
    /\ needed' = << >>
    /\ UNCHANGED << soVars, otherVars, dbVars, jobScheduled, now, stagingAreas, runStart >>

Next ==
    \/ Tick
    \/ \E s \in StoreNames : DropStore(s)
    \/ \E s \in StoreNames : RestoreStore(s)
    \/ GetStoreFails
    \/ SelectInstances
    \/ SkipExisting
    \/ CreateTransfer
    \/ StageRejected
    \/ StageOk
    \/ TransferOutTrue
    \/ TransferOutFalse
    \/ TransferOutNotFound
    \/ TransferGivenUp
    \/ MarkStaged
    \/ CommitExists
    \/ CommitOk
    \/ CreateInstance
    \/ CompleteTransfer
    \/ LoopDone
    \/ Summary

Spec == Init /\ [][Next]_vars

\* The process dies while on_call is between two protocol steps and is started
\* again: what was committed stays, the staging area is not released, and a
\* file that commit already moved into clone_to stays there.
Crash ==
    /\ pc # "idle"
    /\ orphans' = IF pc = "new_instance"
                  THEN orphans \cup {instances[selected[idx]].file}
                  ELSE orphans
    /\ pc' = "idle"
    /\ selected' = << >>
    /\ idx' = 0
    /\ transfer' = NULL
    /\ staging_name' = NULL
    /\ success' = FALSE
    /\ tm_name' = NULL
    /\ tmIdx' = 0
    /\ successful_clones' = 0
    /\ unnecessary_clones' = 0
    /\ calls' = << >>
    /\ needed' = << >>
    /\ UNCHANGED << soVars, restVars, dbVars, jobScheduled, now, stagingAreas, runStart >>

NextCrash == Next \/ Crash

SpecCrash == Init /\ [][NextCrash]_vars

\* ============================================ search.py: the search compiler
\* JSON values as json.loads returns them.
JDict(items) == [t |-> "dict", items |-> items]   \* items: << <<key, value>> >>
JList(items) == [t |-> "list", items |-> items]
JStr(v) == [t |-> "unicode", v |-> v]
JInt(v) == [t |-> "int", v |-> v]
JBool(v) == [t |-> "bool", v |-> v]
JFloat(v) == [t |-> "float", v |-> v]          \* the float v.0
JNull == [t |-> "NoneType"]

\* Text that json.loads rejects.
NotJson == [t |-> "not json"]

\* A search text: the JSON document it spells, and where it holds a '#':
\* nowhere, after the code of a line, or inside a string literal.
SearchText(code, hash) == [code |-> code, hash |-> hash]

\* filter_comments: every line is cut at its first '#'.  A comment after the
\* code goes away; a '#' inside a string literal cuts the literal open, and
\* what is left of the line is no JSON any more.
filter_comments(text) ==
    IF text.hash = "in string" THEN NotJson ELSE text.code

\* The two compilers: the_file_search_compiler and the_obs_search_compiler.
Compilers == {"files", "obs"}

\* the_obs_search_compiler.clauses, for the clauses used here, by
\* implementation (simple_obs_attrs: obsid and session_id are integers,
\* duration and start_time_jd are floats).
ObsClauseImpl(name) ==
    CASE name \in {"and", "or", "none-of"} -> "logical"
      [] name \in {"always-true", "always-false"} -> "constant"
      [] name \in {"obsid-is-exactly", "session-id-is-exactly"} -> "int"
      [] name \in {"duration-greater-than", "start-time-jd-greater-than"} -> "num"
      [] name \in {"duration-in-range"} -> "range"
      [] OTHER -> "unrecognized"

\* The clauses of the_file_search_compiler used here, by implementation.
ClauseImpl(name) ==
    CASE name \in {"and", "or", "none-of"} -> "logical"
      [] name \in {"always-true", "always-false"} -> "constant"
      [] name \in {"name-matches", "name-is-exactly", "name-is-not"} -> "str"
      [] name \in {"size-is-exactly", "size-is-not", "obsid-is-exactly"} -> "int"
      [] name \in {"size-greater-than", "size-less-than",
                   "not-older-than", "not-newer-than"} -> "num"
      [] name \in {"size-in-range", "size-not-in-range"} -> "range"
      [] name = "obs-matches" -> "obs_matches"
      [] name \in {"session-id-is-exactly",
                   "start-time-jd-greater-than"} -> "obs_sub_query"
      [] OTHER -> "unrecognized"

\* A lookup that takes a name no compiler registers for a clause that is
\* always false, instead of refusing it.
ImplOfUnknownIgnored(compiler, name) ==
    LET impl == IF compiler = "obs" THEN ObsClauseImpl(name) ELSE ClauseImpl(name)
    IN IF impl = "unrecognized" THEN "constant" ELSE impl

\* self.clauses.get(name) of either compiler
ImplOf(compiler, name) ==
    IF compiler = "obs" THEN ObsClauseImpl(name) ELSE ClauseImpl(name)

\* isinstance(payload, int) and isinstance(payload, (int, float)): bool is a
\* subclass of int.
IsInt(payload) == payload.t \in {"int", "bool"}
IsNum(payload) == payload.t \in {"int", "bool", "float"}

\* The ServerError a compilation raises, or NoError when it returns a
\* predicate: an unrecognized clause is named, a clause with bad contents is
\* named with the class of what it got, a search that is no dict has no clause
\* to name.
ParseError(kind, clause, got) == [kind |-> kind, clause |-> clause, got |-> got]
NoError == ParseError("none", "", "")

\* The first exception of a list comprehension over payload.iteritems().
FirstError(errs) ==
    IF \A k \in 1 .. Len(errs) : errs[k] = NoError
    THEN NoError
    ELSE errs[CHOOSE k \in 1 .. Len(errs) :
                 /\ errs[k] # NoError
                 /\ \A j \in 1 .. k - 1 : errs[j] = NoError]

\* GenericSearchCompiler._compile_clause with the clause implementations it
\* dispatches to: the error raised, NoError when the clause compiles.
RECURSIVE clause_error(_, _, _)
clause_error(compiler, name, payload) ==
    LET impl == ImplOf(compiler, name)
        contents == ParseError("contents", name, payload.t)
    IN CASE impl = "unrecognized" -> ParseError("unrecognized", name, "")
         [] impl = "constant" -> NoError
         [] impl = "str" -> IF payload.t = "unicode" THEN NoError ELSE contents
         [] impl = "int" -> IF IsInt(payload) THEN NoError ELSE contents
         [] impl = "num" -> IF IsNum(payload) THEN NoError ELSE contents
         [] impl = "range" ->
                IF /\ payload.t = "list"
                   /\ Len(payload.items) = 2
                   /\ IsNum(payload.items[1])
                   /\ IsNum(payload.items[2])
                THEN NoError ELSE contents
         [] impl = "logical" ->
                IF payload.t # "dict" \/ Len(payload.items) = 0
                THEN contents
                ELSE FirstError([k \in 1 .. Len(payload.items) |->
                                    clause_error(compiler, payload.items[k][1],
                                                 payload.items[k][2])])
         [] impl = "obs_matches" ->
                IF payload.t # "dict"
                THEN ParseError("format", "", payload.t)
                ELSE clause_error("obs", "and", payload)
         [] impl = "obs_sub_query" -> clause_error("obs", name, payload)

\* GenericSearchCompiler.compile of either compiler: the error it raises.
compile_error(compiler, search) ==
    IF search.t = "dict"
    THEN clause_error(compiler, "and", search)
    ELSE ParseError("format", "", search.t)

\* the_file_search_compiler._compile_clause: TRUE when the clause compiles,
\* FALSE when it raises ServerError.
compile_clause(name, payload) == clause_error("files", name, payload) = NoError

\* the_file_search_compiler.compile
compile(search) == compile_error("files", search) = NoError

\* ------------------------------------------------ what a compiled clause selects
\* The rows the searches run over.  A File has a name, a size, the obsid of
\* its Observation and the day it was created; an Observation has an obsid, a
\* session, a duration and a start time.  No attribute is NULL.
MaxSize == 3
Today == 10                     \* datetime.utcnow(), in days
AllFiles ==
    [name : {"x", "y"}, size : 0 .. MaxSize, obsid : {1, 2},
     create_time : {Today - 3, Today - 1}]
AllObservations ==
    { [obsid |-> 1, session_id |-> 1, duration |-> 1, start_time_jd |-> 5],
      [obsid |-> 2, session_id |-> 1, duration |-> 3, start_time_jd |-> 7] }

\* The table a compiler's predicates are about.
TableOf(compiler) == IF compiler = "obs" THEN AllObservations ELSE AllFiles

\* attr_getter(): the attribute of row e that the clause called name reads.
AttrValue(name, e) ==
    CASE name \in {"name-matches", "name-is-exactly", "name-is-not"} -> e.name
      [] name \in {"size-is-exactly", "size-is-not", "size-greater-than",
                   "size-less-than", "size-in-range", "size-not-in-range"} -> e.size
      [] name = "obsid-is-exactly" -> e.obsid
      [] name = "session-id-is-exactly" -> e.session_id
      [] name \in {"duration-greater-than", "duration-in-range"} -> e.duration
      [] name = "start-time-jd-greater-than" -> e.start_time_jd
      [] name \in {"not-older-than", "not-newer-than"} -> e.create_time

\* The number a payload that passed isinstance(payload, (int, float)) stands
\* for: True is 1 and False is 0.
NumValue(payload) ==
    IF payload.t = "bool" THEN (IF payload.v THEN 1 ELSE 0) ELSE payload.v

\* The bounds as they were given, not put in order.
RangeBoundsAsGiven(payload) ==
    << NumValue(payload.items[1]), NumValue(payload.items[2]) >>

\* v1, v2 = payload; if v1 > v2: v1, v2 = v2, v1
RangeBounds(payload) ==
    LET v1 == NumValue(payload.items[1])
        v2 == NumValue(payload.items[2])
    IN IF v1 > v2 THEN << v2, v1 >> ELSE << v1, v2 >>

\* and_(value >= v1, value <= v2) and or_(value < v1, value > v2)
InRange(value, bounds) == value >= bounds[1] /\ value <= bounds[2]
NotInRange(value, bounds) == value < bounds[1] \/ value > bounds[2]

\* attr.like(payload), for the two kinds of pattern used here: '%' alone, which
\* everything matches, and a pattern without wildcard, which only itself matches.
Like(value, pattern) == pattern = "%" \/ value = pattern

\* A combination that reads none-of as the negation of and_(*terms).
CombineNoneOfNotAll(name, terms) ==
    CASE name = "and" -> \A k \in 1 .. Len(terms) : terms[k]
      [] name = "or" -> \E k \in 1 .. Len(terms) : terms[k]
      [] name = "none-of" -> ~ \A k \in 1 .. Len(terms) : terms[k]

\* and_(*terms), or_(*terms) and not_(or_(*terms)) over the truth values of
\* the compiled sub-clauses.
Combine(name, terms) ==
    CASE name = "and" -> \A k \in 1 .. Len(terms) : terms[k]
      [] name = "or" -> \E k \in 1 .. Len(terms) : terms[k]
      [] name = "none-of" -> ~ \E k \in 1 .. Len(terms) : terms[k]

\* The predicate that _compile_clause(name, payload) returns, applied to row e
\* of the compiler's table.  Only for clauses that compile.
RECURSIVE holds(_, _, _, _)
holds(compiler, name, payload, e) ==
    LET impl == ImplOf(compiler, name)
    IN CASE impl = "constant" -> name = "always-true"
         [] impl = "str" ->
                (CASE name = "name-matches" -> Like(AttrValue(name, e), payload.v)
                   [] name = "name-is-exactly" -> AttrValue(name, e) = payload.v
                   [] name = "name-is-not" -> AttrValue(name, e) # payload.v)
         [] impl = "int" ->
                IF name = "size-is-not"
                THEN AttrValue(name, e) # NumValue(payload)
                ELSE AttrValue(name, e) = NumValue(payload)
         [] impl = "num" ->
                (CASE name \in {"size-greater-than", "duration-greater-than",
                                "start-time-jd-greater-than"} ->
                         AttrValue(name, e) > NumValue(payload)
                   [] name = "size-less-than" ->
                         AttrValue(name, e) < NumValue(payload)
                   [] name = "not-older-than" ->
                         AttrValue(name, e) > Today - NumValue(payload)
                   [] name = "not-newer-than" ->
                         AttrValue(name, e) < Today - NumValue(payload))
         [] impl = "range" ->
                IF name = "size-not-in-range"
                THEN NotInRange(AttrValue(name, e), RangeBounds(payload))
                ELSE InRange(AttrValue(name, e), RangeBounds(payload))
         [] impl = "logical" ->
                Combine(name, [k \in 1 .. Len(payload.items) |->
                                  holds(compiler, payload.items[k][1],
                                        payload.items[k][2], e)])
         [] impl = "obs_matches" ->
                e.obsid \in { o.obsid : o \in { r \in AllObservations :
                                                  holds("obs", "and", payload, r) } }
         [] impl = "obs_sub_query" ->
                e.obsid \in { o.obsid : o \in { r \in AllObservations :
                                                  holds("obs", name, payload, r) } }

\* query.filter(compiler.compile(search)): the rows of the table that the
\* compiled search selects.
Select(compiler, search) ==
    { e \in TableOf(compiler) : holds(compiler, "and", search, e) }

\* compile_search(search_string): TRUE when it returns a query, FALSE when it
\* raises ServerError.
compile_search(search_string) ==
    LET search == filter_comments(search_string)
    IN IF search = NotJson THEN FALSE ELSE compile(search)

\* The text of default_search.
default_search ==
    SearchText(JDict(<< << "name-matches", JStr("any-file-named-like-%-this") >>,
                        << "not-older-than", JInt(14) >> >>),
               "comment")

\* The search texts an administrator submits.
SubmittedSearches ==
    { default_search,
      SearchText(JDict(<< << "none-of",
                             JDict(<< << "size-in-range",
                                         JList(<< JInt(9), JInt(1) >>) >> >>) >> >>),
                 "none"),
      SearchText(JDict(<< << "name-matches", JStr("a#b") >> >>), "in string"),
      SearchText(NotJson, "none"),
      SearchText(JList(<< JInt(1) >>), "none"),
      SearchText(JDict(<< >>), "none"),
      SearchText(JDict(<< << "name-matches", JInt(5) >> >>), "none"),
      SearchText(JDict(<< << "name-resembles", JStr("x") >> >>), "comment"),
      SearchText(JDict(<< << "always-true", JInt(1) >>,
                          << "or", JDict(<< >>) >> >>), "none") }

\* ===================================================== search.py: manager
\* Time moves in steps of Granule seconds up to MaxTime.
MaxSteps == 88
Granule == DEFAULT_STANDING_ORDER_DELAY \div 3
MaxTime == StartTime + MaxSteps * Granule

\* The standing orders a server may hold when it starts: id, name, search
\* text and connection name.  Search "s1" is a compilable search.
MaxOrders == 2
OrderRow(id) == [id |-> id, name |-> id, search |-> "s1", conn_name |-> "c1"]
OrderTables == {[i \in 1 .. n |-> OrderRow(i)] : n \in 0 .. MaxOrders}

\* app.config['standing_order_mode'] and the local time zone of the server.
\* The offsets put the server's local hour just before 8 and just before 20
\* when the clock reaches its first full hour.
ModesAndOffsets ==
    {<< "normal", 0 >>, << "bogus", 0 >>, << "disabled", 0 >>,
     << "nighttime", 0 >>, << "nighttime", 7 >>, << "nighttime", 19 >>}

\* time.localtime(now).tm_hour
LocalHour == ((clock + utcoffset * 3600) \div 3600) % 24

\* now - self.last_check < MIN_STANDING_ORDER_INTERVAL
RateLimited == clock - last_check < MIN_STANDING_ORDER_INTERVAL

\* RunsSearches without the upper end of the daytime hours.
RunsSearchesNoEvening ==
    /\ mode # "disabled"
    /\ ~ (mode = "nighttime" /\ LocalHour >= 8)

\* maybe_launch_copies gets past the mode restrictions to 'running searches'.
RunsSearches ==
    /\ mode # "disabled"
    /\ ~ (mode = "nighttime" /\ LocalHour >= 8 /\ LocalHour < 20)

\* The ids of the persisted orders, in the order of StandingOrder.query.all().
OrderIds == [k \in 1 .. Len(storders) |-> storders[k].id]

\* The clone job does not run while the server's manager is observed.
CloneIdle == CloneInit /\ selected = << >> /\ instances = SourceInstances

\* A server that starts with some standing orders, some mode and time zone.
InitManager ==
    /\ CloneIdle
    /\ OthersIdle
    /\ clock = StartTime
    /\ last_check = 0
    /\ launch_queued = FALSE
    /\ timeouts = << >>
    /\ nextCheckin = StartTime + CHECKIN_INTERVAL
    /\ \E mo \in ModesAndOffsets : mode = mo[1] /\ utcoffset = mo[2]
    /\ storders \in OrderTables
    /\ flashed = NoRequest
    /\ lastQueue = NoQueue
    /\ unserved = FALSE
    /\ lastCall = NoCall
    /\ evalTimes = << >>

\* Some callback of the IOLoop is due.
CallbackDue ==
    \/ timeouts # << >> /\ Head(timeouts) <= clock
    \/ nextCheckin <= clock

\* Time passes while no callback is due.
Advance ==
    /\ ~ CallbackDue
    /\ clock < MaxTime
    /\ clock' = clock + Granule
    /\ UNCHANGED << cloneVars, otherVars, last_check, launch_queued, timeouts, nextCheckin,
                    mode, utcoffset, storders, flashed, lastQueue, unserved,
                    lastCall, evalTimes >>

\* StandingOrderManager.queue_launch_copy without its `if self.launch_queued`.
queue_launch_copy_unguarded ==
    /\ launch_queued' = TRUE
    /\ timeouts' = Append(timeouts, clock + DEFAULT_STANDING_ORDER_DELAY)
    /\ lastQueue' = [n |-> 1 - lastQueue.n, was_queued |-> launch_queued]
    /\ unserved' = TRUE

\* StandingOrderManager.queue_launch_copy
queue_launch_copy ==
    /\ IF launch_queued
       THEN UNCHANGED << launch_queued, timeouts >>
       ELSE /\ launch_queued' = TRUE
            /\ timeouts' = Append(timeouts,
                                  clock + DEFAULT_STANDING_ORDER_DELAY)
    /\ lastQueue' = [n |-> 1 - lastQueue.n, was_queued |-> launch_queued]
    /\ unserved' = TRUE

\* queue_standing_order_copies called from outside the manager: a file was
\* uploaded or a standing order was updated.
UploadTrigger ==
    /\ queue_launch_copy
    /\ UNCHANGED << cloneVars, otherVars, clock, last_check, nextCheckin, mode, utcoffset,
                    storders, flashed, lastCall, evalTimes >>

\* The PeriodicCallback of register_standing_order_checkin fires.
PeriodicCheckin ==
    /\ nextCheckin <= clock
    /\ queue_launch_copy
    /\ nextCheckin' = nextCheckin + CHECKIN_INTERVAL
    /\ UNCHANGED << cloneVars, otherVars, clock, last_check, mode, utcoffset, storders,
                    flashed, lastCall, evalTimes >>

\* What one call of maybe_launch_copies did; n tells one call from the next.
CallRecord(ret, evaluated, checked) ==
    [n |-> 1 - lastCall.n, ret |-> ret, evaluated |-> evaluated,
     checked |-> checked]

\* _launch_copy_timeout fires and maybe_launch_copies returns False: the
\* timeout re-schedules itself.  This variant drops the request instead.
LaunchCopyTimeoutSkippedDrops ==
    /\ timeouts # << >> /\ Head(timeouts) <= clock
    /\ RateLimited
    /\ timeouts' = Tail(timeouts)
    /\ launch_queued' = FALSE
    /\ lastCall' = CallRecord("False", << >>, FALSE)
    /\ UNCHANGED << cloneVars, otherVars, clock, last_check, nextCheckin, mode, utcoffset,
                    storders, flashed, lastQueue, unserved, evalTimes >>

\* _launch_copy_timeout fires and maybe_launch_copies returns False.
LaunchCopyTimeoutSkipped ==
    /\ timeouts # << >> /\ Head(timeouts) <= clock
    /\ RateLimited
    /\ timeouts' = Append(Tail(timeouts), clock + DEFAULT_STANDING_ORDER_DELAY)
    /\ lastCall' = CallRecord("False", << >>, FALSE)
    /\ UNCHANGED << cloneVars, otherVars, clock, last_check, launch_queued, nextCheckin,
                    mode, utcoffset, storders, flashed, lastQueue, unserved,
                    evalTimes >>

\* LaunchCopyTimeoutRan that does not record the time of the evaluation.
LaunchCopyTimeoutRanKeepsLastCheck ==
    /\ timeouts # << >> /\ Head(timeouts) <= clock
    /\ ~ RateLimited
    /\ timeouts' = Tail(timeouts)
    /\ launch_queued' = FALSE
    /\ IF RunsSearches
       THEN /\ lastCall' = CallRecord("True", OrderIds, FALSE)
            /\ evalTimes' = Append(evalTimes, clock)
            /\ unserved' = FALSE
       ELSE /\ lastCall' = CallRecord("True", << >>, FALSE)
            /\ UNCHANGED << evalTimes, unserved >>
    /\ UNCHANGED << cloneVars, otherVars, clock, last_check, nextCheckin, mode, utcoffset,
                    storders, flashed, lastQueue >>

\* _launch_copy_timeout fires and maybe_launch_copies returns True: either a
\* mode restriction applied, or last_check was set and every order evaluated.
LaunchCopyTimeoutRan ==
    /\ timeouts # << >> /\ Head(timeouts) <= clock
    /\ ~ RateLimited
    /\ timeouts' = Tail(timeouts)
    /\ launch_queued' = FALSE
    /\ IF RunsSearches
       THEN /\ last_check' = clock
            /\ lastCall' = CallRecord("True", OrderIds, TRUE)
            /\ evalTimes' = Append(evalTimes, clock)
            /\ unserved' = FALSE
       ELSE /\ lastCall' = CallRecord("True", << >>, FALSE)
            /\ UNCHANGED << last_check, evalTimes, unserved >>
    /\ UNCHANGED << cloneVars, otherVars, clock, nextCheckin, mode, utcoffset, storders,
                    flashed, lastQueue >>

\* _launch_copy_timeout fires and the evaluation of the k-th order raises:
\* last_check is set already, the exception leaves the callback before
\* launch_queued is cleared or a timeout is scheduled.
LaunchCopyTimeoutRaised(k) ==
    /\ timeouts # << >> /\ Head(timeouts) <= clock
    /\ ~ RateLimited
    /\ RunsSearches
    /\ k \in 1 .. Len(storders)
    /\ timeouts' = Tail(timeouts)
    /\ last_check' = clock
    /\ lastCall' = CallRecord("raised", SubSeq(OrderIds, 1, k), TRUE)
    /\ evalTimes' = Append(evalTimes, clock)
    /\ UNCHANGED << cloneVars, otherVars, clock, launch_queued, nextCheckin, mode,
                    utcoffset, storders, flashed, lastQueue, unserved >>

NextManager ==
    \/ Advance
    \/ UploadTrigger
    \/ PeriodicCheckin
    \/ LaunchCopyTimeoutSkipped
    \/ LaunchCopyTimeoutRan
    \/ \E k \in 1 .. MaxOrders : LaunchCopyTimeoutRaised(k)

SpecManager == InitManager /\ [][NextManager]_vars

\* ==================================== search.py: standing-order administration
MaxOrderId == 3      \* ids the table hands out
Names == {"a", "b"}  \* order names an administrator types, besides the empty one
ConnNames == {"undefined-connection", "c1"}

\* What the administrative requests never touch, and what queue_launch_copy
\* touches.
adminFrame == << cloneVars, otherVars, clock, last_check, nextCheckin, mode, utcoffset,
                 lastCall, evalTimes >>
queueFrame == << launch_queued, timeouts, lastQueue, unserved >>

\* The request and the message it flashed; n tells one request from the next.
Flash(op, search, msg) ==
    [n |-> 1 - flashed.n, op |-> op, search |-> search, msg |-> msg]

\* StandingOrder.query.filter(StandingOrder.name == name).first(): the position
\* of the row, 0 for None.
FirstNamed(name) ==
    IF \E k \in 1 .. Len(storders) : storders[k].name = name
    THEN CHOOSE k \in 1 .. Len(storders) :
             /\ storders[k].name = name
             /\ \A j \in 1 .. k - 1 : storders[j].name # name
    ELSE 0

\* The id an inserted row gets (autoincrement).
NextId ==
    IF storders = << >> THEN 1 ELSE storders[Len(storders)].id + 1

\* db.session.commit() of the table `pending`: the unique constraint on name
\* (line 389) makes it raise when two rows bear the same name.
CommitSucceeds(pending) ==
    \A j, k \in 1 .. Len(pending) : pending[j].name = pending[k].name => j = k

\* The session is removed when the request ends: what was not committed is
\* discarded.
shutdown_session(committed, pending) == committed

\* create_standing_order, from the POST to the redirect.
create_standing_order(name) ==
    /\ NextId <= MaxOrderId
    /\ LET storder == [id |-> NextId, name |-> name, search |-> default_search,
                       conn_name |-> "undefined-connection"]
           pending == Append(storders, storder)
       IN IF /\ name # ""
             /\ compile_search(storder.search)
             /\ CommitSucceeds(pending)
          THEN /\ storders' = pending
               /\ flashed' = Flash("create", NULL, "none")
          ELSE /\ storders' = shutdown_session(storders, pending)
               /\ flashed' = Flash("create", NULL, "Cannot create")
    /\ UNCHANGED << adminFrame, queueFrame >>

\* update_standing_order that commits without calling _validate.
update_standing_order_unvalidated(name, new_name, new_conn, new_search) ==
    LET k == FirstNamed(name)
        pending == [storders EXCEPT ![k].name = new_name,
                                    ![k].conn_name = new_conn,
                                    ![k].search = new_search]
    IN /\ UNCHANGED adminFrame
       /\ IF k = 0
          THEN /\ flashed' = Flash("update", new_search, "No such standing order")
               /\ UNCHANGED << storders, queueFrame >>
          ELSE IF CommitSucceeds(pending)
               THEN /\ storders' = pending
                    /\ queue_launch_copy
                    /\ flashed' = Flash("update", new_search, "Updated")
               ELSE /\ storders' = shutdown_session(storders, pending)
                    /\ flashed' = Flash("update", new_search, "Cannot update")
                    /\ UNCHANGED queueFrame

\* update_standing_order that calls queue_standing_order_copies on the
\* failure path too.
update_standing_order_always_queues(name, new_name, new_conn, new_search) ==
    LET k == FirstNamed(name)
        pending == [storders EXCEPT ![k].name = new_name,
                                    ![k].conn_name = new_conn,
                                    ![k].search = new_search]
    IN /\ UNCHANGED adminFrame
       /\ IF k = 0
          THEN /\ flashed' = Flash("update", new_search, "No such standing order")
               /\ UNCHANGED << storders, queueFrame >>
          ELSE IF compile_search(pending[k].search) /\ CommitSucceeds(pending)
               THEN /\ storders' = pending
                    /\ queue_launch_copy
                    /\ flashed' = Flash("update", new_search, "Updated")
               ELSE /\ storders' = shutdown_session(storders, pending)
                    /\ queue_launch_copy
                    /\ flashed' = Flash("update", new_search, "Cannot update")

\* update_standing_order, from the POST to the redirect: the new values are
\* set on the row, _validate compiles the new search, then merge and commit.
update_standing_order(name, new_name, new_conn, new_search) ==
    LET k == FirstNamed(name)
        pending == [storders EXCEPT ![k].name = new_name,
                                    ![k].conn_name = new_conn,
                                    ![k].search = new_search]
    IN /\ UNCHANGED adminFrame
       /\ IF k = 0
          THEN /\ flashed' = Flash("update", new_search, "No such standing order")
               /\ UNCHANGED << storders, queueFrame >>
          ELSE IF compile_search(pending[k].search) /\ CommitSucceeds(pending)
               THEN /\ storders' = pending
                    /\ queue_launch_copy
                    /\ flashed' = Flash("update", new_search, "Updated")
               ELSE /\ storders' = shutdown_session(storders, pending)
                    /\ flashed' = Flash("update", new_search, "Cannot update")
                    /\ UNCHANGED queueFrame

\* delete_standing_order, from the POST to the redirect.
delete_standing_order(name) ==
    LET k == FirstNamed(name)
    IN /\ UNCHANGED << adminFrame, queueFrame >>
       /\ IF k = 0
          THEN /\ flashed' = Flash("delete", NULL, "No such standing order")
               /\ UNCHANGED storders
          ELSE /\ storders' = SubSeq(storders, 1, k - 1)
                                  \o SubSeq(storders, k + 1, Len(storders))
               /\ flashed' = Flash("delete", NULL, "Deleted")

\* A server with no standing order yet.
InitOrders == CloneIdle /\ ManagerBoot /\ OthersIdle

NextOrders ==
    \/ \E name \in Names \cup {""} : create_standing_order(name)
    \/ \E name \in Names, new_name \in Names \cup {""}, new_conn \in ConnNames,
          new_search \in SubmittedSearches :
          update_standing_order(name, new_name, new_conn, new_search)
    \/ \E name \in Names : delete_standing_order(name)

SpecOrders == InitOrders /\ [][NextOrders]_vars

\* ==================================== search.py: compiling and running a search
\* The clause names that are submitted: the registered ones of both compilers
\* and some that no compiler registers.
LogicalNames == {"and", "or", "none-of"}
TypedNames ==
    {"name-matches", "name-is-exactly", "name-is-not", "size-is-exactly",
     "size-is-not", "obsid-is-exactly", "size-greater-than", "size-less-than",
     "not-older-than", "not-newer-than", "size-in-range", "size-not-in-range",
     "session-id-is-exactly", "start-time-jd-greater-than",
     "duration-greater-than", "duration-in-range"}
OtherNames == {"always-true", "always-false", "obs-matches",
               "name-resembles", "size-matches"}
SubmittedNames == LogicalNames \cup TypedNames \cup OtherNames

\* The payloads that are submitted with them.
ScalarPayloads ==
    {JStr("x"), JStr("%"), JInt(1), JInt(2), JBool(TRUE), JFloat(2), JNull}
ListPayloads ==
    {JList(<< >>), JList(<< JInt(1) >>), JList(<< JInt(1), JInt(2), JInt(3) >>),
     JList(<< JInt(1), JStr("x") >>), JList(<< JBool(TRUE), JInt(2) >>),
     JList(<< JInt(0), JFloat(2) >>)}
      \cup { JList(<< JInt(a), JInt(b) >>) : a, b \in 0 .. MaxSize }
SubmittedPayloads == ScalarPayloads \cup ListPayloads \cup {JDict(<< >>)}

\* Mappings of one clause, and of two clauses with different names in either
\* order of iteration.
PairedClauses ==
    { << "always-true", JNull >>, << "always-false", JNull >>,
      << "size-greater-than", JInt(1) >>, << "name-is-exactly", JStr("x") >>,
      << "size-in-range", JList(<< JInt(2), JInt(0) >>) >>,
      << "duration-greater-than", JInt(2) >>,
      << "name-resembles", JStr("x") >>, << "size-is-exactly", JStr("x") >> }
FlatSearches ==
    { JDict(<< << name, payload >> >>) :
          name \in SubmittedNames, payload \in SubmittedPayloads }
      \cup { JDict(<< p[1], p[2] >>) :
                 p \in { q \in PairedClauses \X PairedClauses : q[1][1] # q[2][1] } }

\* The same, below one or two clauses that take a mapping.
NestingNames == LogicalNames \cup {"obs-matches", "always-true"}
NestedSearches ==
    { JDict(<< << op, s >> >>) : op \in NestingNames, s \in FlatSearches }
DeepSearches ==
    { JDict(<< << op1, JDict(<< << op2, JDict(<< c >>) >> >>) >> >>) :
          op1 \in LogicalNames, op2 \in LogicalNames, c \in PairedClauses }

\* Everything that is handed to compile().
Searches ==
    FlatSearches \cup NestedSearches \cup DeepSearches
      \cup ScalarPayloads \cup ListPayloads \cup {JDict(<< >>)}

compileFrame == << cloneVars, soVars, orphans, copyVars, taskVars >>

\* A search arrives at compile_search with query_type 'files' or 'obs'.
InitCompile ==
    /\ CloneIdle
    /\ ManagerBoot
    /\ orphans = {}
    /\ CopyIdle
    /\ TasksIdle
    /\ the_search \in Searches
    /\ query_type \in Compilers
    /\ outcome = "submitted"
    /\ raised = NoError
    /\ rows = {}

\* compiler.compile(search) raises ServerError
CompileRaises ==
    /\ outcome = "submitted"
    /\ compile_error(query_type, the_search) # NoError
    /\ raised' = compile_error(query_type, the_search)
    /\ outcome' = "failed"
    /\ UNCHANGED << compileFrame, the_search, query_type, rows >>

\* compiler.compile(search) returns a predicate
CompileReturns ==
    /\ outcome = "submitted"
    /\ compile_error(query_type, the_search) = NoError
    /\ outcome' = "compiled"
    /\ UNCHANGED << compileFrame, the_search, query_type, raised, rows >>

\* The query filtered by the predicate is run.
RunQuery ==
    /\ outcome = "compiled"
    /\ rows' = Select(query_type, the_search)
    /\ outcome' = "run"
    /\ UNCHANGED << compileFrame, the_search, query_type, raised >>

NextCompile ==
    \/ CompileRaises
    \/ CompileReturns
    \/ RunQuery

SpecCompile == InitCompile /\ [][NextCompile]_vars

\* ================================== search.py: StandingOrder.get_files_to_copy
MaxTasks == 2
None == "None"                  \* Python's None, where a string may stand

\* The File table: names are unique.
CopyTable ==
    { [name |-> "x", size |-> 1, obsid |-> 1, create_time |-> Today - 1],
      [name |-> "y", size |-> 2, obsid |-> 1, create_time |-> Today - 1],
      [name |-> "z", size |-> 3, obsid |-> 2, create_time |-> Today - 3] }

\* StandingOrder.event_type: 'standing_order_succeeded:' + self.name
event_type(name) == << "standing_order_succeeded", name >>

\* The standing orders that are evaluated: persisted rows, so their searches
\* compile.
OrderNames == {"o1", "o2"}
OrderSearches ==
    { SearchText(JDict(<< << "always-true", JNull >> >>), "none"),
      SearchText(JDict(<< << "size-greater-than", JInt(1) >> >>), "comment"),
      SearchText(JDict(<< << "none-of",
                             JDict(<< << "name-is-exactly", JStr("y") >> >>) >> >>),
                 "none") }

\* The FileEvent rows there may be: (name, type).
PossibleEvents ==
    { << "x", event_type("o1") >>, << "x", event_type("o2") >>,
      << "y", event_type("o1") >>, << "y", << "copy_finished", "o1" >> >> }

\* The tasks the_task_manager.tasks may hold.  An UploaderTask has the path in
\* the store of the file it copies, the name of the standing order that
\* launched it (None when none did) and, once it finished with an error, its
\* exception; other tasks have none of these attributes.
StorePaths == { << "2458000", "x" >>, << "2458002", "z" >> }
basename(store_path) == store_path[2]
UploaderTasks ==
    [kind : {"UploaderTask"}, store_path : StorePaths,
     standing_order_name : OrderNames \cup {None},
     exception : {None, "RPCError"}]
OtherTask == [kind |-> "OtherTask"]
PossibleTasks == UploaderTasks \cup {OtherTask}
TaskLists == UNION { [1 .. n -> PossibleTasks] : n \in 0 .. MaxTasks }

\* The files the order's query returns: those matching the compiled search
\* that are not named by a FileEvent of the order's event type.
NotDone(order, events) ==
    LET already_done == { f \in CopyTable :
                            << f.name, event_type(order.name) >> \in events }
    IN { f \in CopyTable : holds("files", "and", filter_comments(order.search), f) }
         \ already_done

\* The base names of the store paths of all UploaderTasks of this order,
\* those that ended in an exception included.
already_launched_or_failed(order, tasks) ==
    { basename(tasks[k].store_path) :
        k \in { j \in 1 .. Len(tasks) :
                  /\ tasks[j].kind = "UploaderTask"
                  /\ order.name = tasks[j].standing_order_name } }

\* already_launched: the base names of the store paths of the UploaderTasks
\* of this order that have no exception.
already_launched(order, tasks) ==
    { basename(tasks[k].store_path) :
        k \in { j \in 1 .. Len(tasks) :
                  /\ tasks[j].kind = "UploaderTask"
                  /\ order.name = tasks[j].standing_order_name
                  /\ tasks[j].exception = None } }

\* get_files_to_copy: the files it yields.
get_files_to_copy(order, events, tasks) ==
    { f \in NotDone(order, events) : f.name \notin already_launched(order, tasks) }

copyFrame == << cloneVars, soVars, orphans, compileVars, taskVars >>

InitCopies ==
    /\ CloneIdle
    /\ ManagerBoot
    /\ orphans = {}
    /\ CompileIdle
    /\ TasksIdle
    /\ so_row \in [name : OrderNames, search : OrderSearches]
    /\ file_events \in SUBSET PossibleEvents
    /\ active_tasks \in TaskLists
    /\ yielded = {}
    /\ copy_pc = "called"

\* list(order.get_files_to_copy())
GetFilesToCopy ==
    /\ copy_pc = "called"
    /\ compile_search(so_row.search)
    /\ yielded' = get_files_to_copy(so_row, file_events, active_tasks)
    /\ copy_pc' = "done"
    /\ UNCHANGED << copyFrame, so_row, file_events, active_tasks >>

NextCopies == GetFilesToCopy

SpecCopies == InitCopies /\ [][NextCopies]_vars

\* ============================== librarian_server/__init__.py: background tasks
MaxLaunched == 3                \* launch_background_task calls in one run
NWorkers == 2                   \* app.config['n_worker_threads']

\* A task from launch_background_task on: where the pool has it, how often
\* its wrapup was handed to the control loop, how often and on which thread
\* the wrapup ran, and the (result, exc) it was run with.
NewTask ==
    [state |-> "queued", scheduled |-> 0, wrapped |-> 0, ran_on |-> None,
     delivered |-> << None, None >>]

TaskIds == 1 .. Len(bg_tasks)
InFlight == { t \in TaskIds : bg_tasks[t].state \in {"queued", "running"} }

taskFrame == << cloneVars, soVars, orphans, compileVars, copyVars >>

\* commandline, server 'tornado': the control loop was started, nothing was
\* launched yet.
InitTasks ==
    /\ CloneIdle
    /\ ManagerBoot
    /\ orphans = {}
    /\ CompileIdle
    /\ CopyIdle
    /\ worker_pool = "none"
    /\ bg_tasks = << >>
    /\ callbacks = << >>
    /\ main_pc = "loop"

\* launch_background_task, called by a handler that runs on the control loop:
\* the pool is made at the first call, then apply_async queues the task.
Launch ==
    /\ main_pc = "loop"
    /\ Len(bg_tasks) < MaxLaunched
    /\ worker_pool' = "open"
    /\ bg_tasks' = Append(bg_tasks, NewTask)
    /\ UNCHANGED << taskFrame, callbacks, main_pc >>

\* A worker thread of the pool that is free takes the next queued task and
\* enters _task_wrapper.
WorkerTakes(t) ==
    /\ t \in TaskIds
    /\ bg_tasks[t].state = "queued"
    /\ \A u \in 1 .. t - 1 : bg_tasks[u].state # "queued"
    /\ Cardinality({ u \in TaskIds : bg_tasks[u].state = "running" }) < NWorkers
    /\ bg_tasks' = [bg_tasks EXCEPT ![t].state = "running"]
    /\ UNCHANGED << taskFrame, worker_pool, callbacks, main_pc >>

\* A wrapper that calls the wrapup itself, on the worker thread.
TaskWrapperCallsWrapup(t, outcome_of_bg) ==
    /\ t \in TaskIds
    /\ bg_tasks[t].state = "running"
    /\ LET result == IF outcome_of_bg = "returned" THEN "result" ELSE None
           exc == IF outcome_of_bg = "returned" THEN None ELSE "exception"
       IN bg_tasks' = [bg_tasks EXCEPT ![t].state = outcome_of_bg,
                                       ![t].wrapped = @ + 1,
                                       ![t].ran_on = "worker",
                                       ![t].delivered = << result, exc >>]
    /\ UNCHANGED << taskFrame, worker_pool, callbacks, main_pc >>

\* _task_wrapper on the worker thread: bg_func returned or raised an
\* Exception, and the wrapup is handed to the control loop with add_callback.
TaskWrapper(t, outcome_of_bg) ==
    /\ t \in TaskIds
    /\ bg_tasks[t].state = "running"
    /\ LET result == IF outcome_of_bg = "returned" THEN "result" ELSE None
           exc == IF outcome_of_bg = "returned" THEN None ELSE "exception"
       IN /\ callbacks' = Append(callbacks,
                                 [task |-> t, result |-> result, exc |-> exc])
          /\ bg_tasks' = [bg_tasks EXCEPT ![t].state = outcome_of_bg,
                                          ![t].scheduled = @ + 1]
    /\ UNCHANGED << taskFrame, worker_pool, main_pc >>

\* The control loop runs the callback at the head of its queue:
\* wrapup_func(args, kwargs, result, exc) on the control thread.
RunCallback ==
    /\ main_pc = "loop"
    /\ callbacks # << >>
    /\ LET cb == Head(callbacks)
       IN bg_tasks' = [bg_tasks EXCEPT ![cb.task].wrapped = @ + 1,
                                       ![cb.task].ran_on = "control",
                                       ![cb.task].delivered = << cb.result, cb.exc >>]
    /\ callbacks' = Tail(callbacks)
    /\ UNCHANGED << taskFrame, worker_pool, main_pc >>

\* The control loop is stopped: IOLoop.instance().start() returns (line 124)
\* and commandline goes on to maybe_wait_for_threads_to_finish.
LoopStops ==
    /\ main_pc = "loop"
    /\ main_pc' = "after_loop"
    /\ UNCHANGED << taskFrame, worker_pool, bg_tasks, callbacks >>

\* maybe_wait_for_threads_to_finish: no pool was ever made
DrainNoPool ==
    /\ main_pc = "after_loop"
    /\ worker_pool = "none"
    /\ main_pc' = "exited"
    /\ UNCHANGED << taskFrame, worker_pool, bg_tasks, callbacks >>

\* _worker_pool.close()
PoolClose ==
    /\ main_pc = "after_loop"
    /\ worker_pool = "open"
    /\ worker_pool' = "closed"
    /\ main_pc' = "joining"
    /\ UNCHANGED << taskFrame, bg_tasks, callbacks >>

\* _worker_pool.join() returns when the workers are through with every task;
\* then commandline returns.
PoolJoin ==
    /\ main_pc = "joining"
    /\ InFlight = {}
    /\ worker_pool' = "joined"
    /\ main_pc' = "exited"
    /\ UNCHANGED << taskFrame, bg_tasks, callbacks >>

NextTasks ==
    \/ Launch
    \/ \E t \in 1 .. MaxLaunched : WorkerTakes(t)
    \/ \E t \in 1 .. MaxLaunched : TaskWrapper(t, "returned")
    \/ \E t \in 1 .. MaxLaunched : TaskWrapper(t, "raised")
    \/ RunCallback
    \/ LoopStops
    \/ DrainNoPool
    \/ PoolClose
    \/ PoolJoin

SpecTasks == InitTasks /\ [][NextTasks]_vars

\* ============================================== properties of create_clone.py
\* ------------------------------------------------------ shared definitions
\* The run in progress (or, at idle, the last run) and the rows each run added.
LastRun == Len(runStart)

RowsOfRun(k) ==
    (runStart[k].t + 1) ..
        (IF k < Len(runStart) THEN runStart[k + 1].t ELSE Len(transfers))

RunRows == IF runStart = << >> THEN {} ELSE RowsOfRun(LastRun)

Terminal == {"COMPLETED", "FAILED"}

\* The calls log belongs to the row `transfer` of the run in progress.
InAttempt == pc \notin {"idle"} /\ transfer # NULL

\* Position in `selected` of the instance that row `transfer` was created for.
PosOfTransfer ==
    CHOOSE p \in 1 .. Len(selected) :
        selected[p] = transfers[transfer].source_instance_id

MadeBy(t) == {i \in 1 .. Len(instances) : instOrigin[i] = t}

HasCall(op, res) ==
    \E k \in 1 .. Len(calls) : calls[k].op = op /\ calls[k].res = res

\* The attempt of row `transfer` is over and the loop went on: every instance
\* up to the loop position has been examined, the rest follows.
MovedOn ==
    /\ pc \in {"loop", "summary"}
    /\ idx > PosOfTransfer
    /\ Len(needed) = idx - 1
    /\ pc = "summary" => idx = Len(selected) + 1

\* C1: when a run reaches its summary, every CloneTransfer row the run created
\* has status COMPLETED or FAILED.
C1_RunEndsTerminal ==
    pc = "summary" => \A t \in RunRows : transfers[t].status \in Terminal

C1_Witness ==
    /\ pc = "summary"
    /\ \E t \in RunRows : transfers[t].status = "COMPLETED"
    /\ \E t \in RunRows : transfers[t].status = "FAILED"

\* The moves of the CloneTransfer state machine.
AllowedMove(a, b) ==
    \/ a = b
    \/ a = "PENDING" /\ b \in {"STAGED", "FAILED"}
    \/ a = "STAGED" /\ b \in {"COMPLETED", "FAILED"}

\* C2: a CloneTransfer's status only moves PENDING -> STAGED -> COMPLETED, or to
\* FAILED from PENDING or STAGED; a row that is FAILED or COMPLETED keeps its
\* status in every later step.
C2_StatusMachine ==
    [][\A t \in 1 .. Len(transfers) :
          AllowedMove(transfers[t].status, transfers'[t].status)]_vars

\* Row t's destination instance id names the Instance its attempt created: of
\* the source's File, on clone_to, with the source's deletion policy.
LinkedToOwnInstance(t) ==
    LET r == transfers[t]
        d == r.destination_instance_id
        src == instances[r.source_instance_id]
    IN /\ d # NULL
       /\ d \in MadeBy(t)
       /\ instances[d].file = src.file
       /\ instances[d].store = r.destination_store_id
       /\ instances[d].store = clone_to
       /\ instances[d].deletion_policy = src.deletion_policy

\* The attempt in progress created its Instance only after commit succeeded.
CreatedAfterCommit ==
    InAttempt /\ MadeBy(transfer) # {} => HasCall("commit", "ok")

\* C3 (as claimed): in every state a row is COMPLETED exactly when its
\* destination instance id is set and names an Instance of the source's File on
\* clone_to that this attempt created, after commit succeeded, with the source's
\* deletion policy; a row that is not COMPLETED has no destination instance and
\* its attempt created no Instance.
C3_CompletedIffInstance ==
    /\ CreatedAfterCommit
    /\ \A t \in 1 .. Len(transfers) :
          /\ transfers[t].status = "COMPLETED" <=> LinkedToOwnInstance(t)
          /\ transfers[t].status # "COMPLETED" =>
                /\ transfers[t].destination_instance_id = NULL
                /\ MadeBy(t) = {}

\* Row t is not between the commit of its new Instance and its own.
AttemptOver(t) == ~ (t = transfer /\ pc = "complete")

\* C3 (amended): as above, but "its attempt created no Instance" is required of
\* a row that is not COMPLETED only once its attempt is over: between the
\* commit that adds the new Instance and the commit that records COMPLETED the
\* row is still STAGED.
C3_CompletedIffInstanceAfterAttempt ==
    /\ CreatedAfterCommit
    /\ \A t \in 1 .. Len(transfers) :
          /\ transfers[t].status = "COMPLETED" <=> LinkedToOwnInstance(t)
          /\ Cardinality(MadeBy(t)) <= 1
          /\ transfers[t].status # "COMPLETED" =>
                /\ transfers[t].destination_instance_id = NULL
                /\ AttemptOver(t) => MadeBy(t) = {}

C3_Witness ==
    /\ pc = "summary"
    /\ \E t \in RunRows : /\ transfers[t].status = "COMPLETED"
                          /\ LinkedToOwnInstance(t)
                          /\ instances[transfers[t].destination_instance_id]
                                 .deletion_policy = "ALLOWED"
    /\ \E t \in RunRows : transfers[t].status = "FAILED" /\ MadeBy(t) = {}

\* C4: if a transfer_out of the attempt raised not-found or returned a negative
\* result, no commit is performed, no Instance is created for the attempt, and
\* once the loop has moved on the row is FAILED.
C4_FailedTransferOutFailsAttempt ==
    InAttempt /\ (HasCall("transfer_out", "false")
                    \/ HasCall("transfer_out", "notfound")) =>
        /\ ~ HasCall("commit", "ok") /\ ~ HasCall("commit", "exists")
        /\ MadeBy(transfer) = {}
        /\ pc \in {"loop", "summary"} => transfers[transfer].status = "FAILED"

\* C5: after stage rejected the file, the attempt made no other capability
\* call, reserved no staging area, its row is FAILED with no destination
\* instance, it created no Instance, the run holds one row for the source
\* instance, and the loop went on to the instances that follow.
C5_StageRejected ==
    InAttempt /\ HasCall("stage", "reject") =>
        /\ calls = << Call("stage", NULL, "reject") >>
        /\ transfer \notin stagingAreas
        /\ transfers[transfer].status = "FAILED"
        /\ transfers[transfer].destination_instance_id = NULL
        /\ MadeBy(transfer) = {}
        /\ Cardinality({t \in RunRows :
              transfers[t].source_instance_id
                  = transfers[transfer].source_instance_id}) = 1
        /\ MovedOn

C5_Witness ==
    /\ InAttempt
    /\ calls = << Call("stage", NULL, "reject") >>
    /\ pc = "loop"
    /\ idx > PosOfTransfer + 1

\* C6: commit is only called on a STAGED row; after commit reported that the
\* path exists, the staging area has been unstaged (the attempt's last call),
\* the row is FAILED with no destination instance, no Instance was created, and
\* the loop went on to the instances that follow.
C6_CommitExists ==
    /\ pc = "commit" => transfers[transfer].status = "STAGED"
    /\ InAttempt /\ HasCall("commit", "exists") =>
        /\ Len(calls) >= 2
        /\ calls[Len(calls) - 1] = Call("commit", NULL, "exists")
        /\ calls[Len(calls)] = Call("unstage", NULL, "ok")
        /\ staging_name = transfer
        /\ transfer \notin stagingAreas
        /\ transfers[transfer].status = "FAILED"
        /\ transfers[transfer].destination_instance_id = NULL
        /\ MadeBy(transfer) = {}
        /\ MovedOn

C6_Witness ==
    /\ InAttempt
    /\ HasCall("commit", "exists")
    /\ pc = "loop"
    /\ idx > PosOfTransfer + 1

\* The first transfer manager whose transfer_out returned True in this attempt.
FirstSuccess ==
    LET S == {k \in 1 .. Len(calls) :
                 calls[k].op = "transfer_out" /\ calls[k].res = "true"}
    IN IF S = {} THEN NULL
       ELSE calls[CHOOSE k \in S : \A j \in S : k <= j].using

\* C7: a STAGED row records the first transfer manager, in iteration order,
\* whose transfer_out reported success for the instance.
C7_FirstSuccessfulManagerRecorded ==
    InAttempt /\ transfers[transfer].status = "STAGED" =>
        transfers[transfer].transfer_manager_name = FirstSuccess

\* C8: no transfer_out is attempted for an instance after a transfer_out for
\* that instance reported success.
C8_NoAttemptAfterSuccess ==
    \A j, k \in 1 .. Len(calls) :
        j < k /\ calls[j].op = "transfer_out" /\ calls[j].res = "true"
            => calls[k].op # "transfer_out"

\* The rows the run in progress created for source instance i.
RowsFor(i) == {t \in RunRows : transfers[t].source_instance_id = i}

\* C9: at the summary every selected instance has been examined, and the run
\* holds exactly one row for each instance that had no Instance on clone_to
\* when examined and none for the others.
C9_EveryNeededInstanceAttempted ==
    pc = "summary" =>
        /\ Len(needed) = Len(selected)
        /\ \A p \in 1 .. Len(selected) :
              Cardinality(RowsFor(selected[p])) = IF needed[p] THEN 1 ELSE 0

C9_Witness ==
    /\ pc = "summary"
    /\ Cardinality(RunRows) >= 2
    /\ \E t \in RunRows : /\ transfers[t].status = "FAILED"
                          /\ t + 1 \in RunRows

\* The run in progress added no row and no Instance and skipped every instance.
NothingToDo ==
    /\ RunRows = {}
    /\ Len(instances) = runStart[LastRun].i
    /\ Len(needed) = Len(selected)
    /\ unnecessary_clones = Len(selected)
    /\ \A p \in 1 .. Len(selected) : ~ needed[p]

\* C10 (as claimed): a run that follows another run adds no CloneTransfer row
\* and no Instance, and classifies every selected instance as unnecessary.
C10_SecondRunIdempotent ==
    pc = "summary" /\ LastRun >= 2 => NothingToDo

\* A row of the run before the one in progress ended FAILED.
PrecedingRunFailed ==
    \E t \in RowsOfRun(LastRun - 1) : transfers[t].status = "FAILED"

\* C10 (amended): the same, provided no row of the preceding run ended FAILED.
C10_SecondRunIdempotentAfterSuccess ==
    pc = "summary" /\ LastRun >= 2 /\ ~ PrecedingRunFailed => NothingToDo

C10_Witness ==
    /\ pc = "summary"
    /\ LastRun >= 2
    /\ ~ PrecedingRunFailed
    /\ RowsOfRun(LastRun - 1) # {}
    /\ Len(selected) >= 1
    /\ NothingToDo

\* A row of an earlier run for source instance i ended FAILED.
FailedBefore(i) ==
    \E t \in 1 .. Len(transfers) :
        /\ t \notin RunRows
        /\ transfers[t].source_instance_id = i
        /\ transfers[t].status = "FAILED"

\* The loop is about to examine an instance that has no Instance on clone_to.
ExaminesNeeded ==
    /\ pc = "loop"
    /\ idx <= Len(selected)
    /\ ~ HasInstanceOn(instances, clone_to, instances[selected[idx]].file)

\* The loop is about to examine an instance whose File is on clone_to already.
ExaminesExisting ==
    /\ pc = "loop"
    /\ idx <= Len(selected)
    /\ HasInstanceOn(instances, clone_to, instances[selected[idx]].file)

\* C11: a run that starts selects every source instance inside the age window,
\* whatever rows earlier runs left for it; when it examines an instance that an
\* earlier run left FAILED and that has no Instance on clone_to, it appends a
\* new PENDING row for that instance; and no step changes a row of an earlier
\* run.
C11_RetryCreatesNewRow ==
    [][/\ \A t \in 1 .. Len(transfers) :
             t \notin RunRows' => transfers'[t] = transfers[t]
       /\ runStart' # runStart =>
             \A i \in 1 .. Len(instances) :
                 /\ FailedBefore(i)
                 /\ instances[i].store = clone_from
                 /\ instances[i].created_time > now - age_in_days
                 => \E p \in 1 .. Len(selected') : selected'[p] = i
       /\ ExaminesNeeded /\ FailedBefore(selected[idx]) =>
             /\ Len(transfers') = Len(transfers) + 1
             /\ transfers'[Len(transfers')].source_instance_id = selected[idx]
             /\ transfers'[Len(transfers')].status = "PENDING"
             /\ transfers'[Len(transfers')].destination_instance_id = NULL
             /\ transfer' = Len(transfers')]_vars

C11_Witness ==
    /\ pc = "stage"
    /\ LastRun >= 2
    /\ transfer \in RunRows
    /\ transfers[transfer].status = "PENDING"
    /\ FailedBefore(transfers[transfer].source_instance_id)

\* Both configured store names resolve to a store.
BothStoresExist == clone_from \in stores /\ clone_to \in stores

\* C12: the job is cancelled only when a store name does not resolve, in a step
\* that adds no row and no Instance and calls no capability; a run starts only
\* when both names resolve; and once the job is cancelled no run starts and
\* nothing is written any more, whatever happens to the stores.
C12_MissingStoreCancelsJob ==
    [][/\ jobScheduled /\ ~ jobScheduled' =>
             /\ ~ BothStoresExist
             /\ UNCHANGED << transfers, instances, calls, stagingAreas,
                             runStart, pc >>
       /\ runStart' # runStart => BothStoresExist
       /\ ~ jobScheduled =>
             /\ ~ jobScheduled'
             /\ pc = "idle" /\ pc' = "idle"
             /\ UNCHANGED << transfers, instances, calls, stagingAreas,
                             runStart >>]_vars

C12_Witness ==
    /\ ~ jobScheduled
    /\ pc = "idle"
    /\ BothStoresExist
    /\ Len(runStart) < MaxRuns
    /\ \E i \in 1 .. Len(instances) :
          /\ instances[i].store = clone_from
          /\ instances[i].created_time > now - age_in_days
          /\ ~ HasInstanceOn(instances, clone_to, instances[i].file)

\* The counters of the run in progress agree with what the run did so far.
CountsAgree ==
    pc # "idle" =>
        /\ unnecessary_clones
               = Cardinality({p \in 1 .. Len(needed) : ~ needed[p]})
        /\ successful_clones
               = Cardinality({t \in RunRows : transfers[t].status = "COMPLETED"})
        /\ successful_clones + unnecessary_clones <= Len(selected)

\* C13: examining an instance whose File already has an Instance on clone_to
\* adds no row, calls no capability, reserves no staging area and adds one to
\* the unnecessary count; throughout a run the unnecessary count is the number
\* of instances skipped, the successful count is the number of the run's
\* COMPLETED rows, and their sum is at most the number of selected instances.
C13_SkipExistingCounted ==
    [][/\ CountsAgree'
       /\ ExaminesExisting =>
             /\ UNCHANGED << transfers, instances, calls, stagingAreas,
                             successful_clones >>
             /\ unnecessary_clones' = unnecessary_clones + 1
             /\ idx' = idx + 1
             /\ pc' = "loop"]_vars

C13_Witness ==
    /\ pc = "summary"
    /\ unnecessary_clones >= 1
    /\ successful_clones >= 1
    /\ \E p \in 1 .. Len(selected) :
          ~ needed[p] /\ RowsFor(selected[p]) = {}

\* This step is one call of maybe_launch_copies.
CallsMaybeLaunchCopies == lastCall' # lastCall

\* This step is one call of queue_launch_copy.
CallsQueueLaunchCopy == lastQueue' # lastQueue

\* Less than the minimum interval has passed since the last real evaluation.
EvaluatedRecently ==
    /\ evalTimes # << >>
    /\ clock - evalTimes[Len(evalTimes)] < MIN_STANDING_ORDER_INTERVAL

\* C14: two successive real evaluations are at least 1200 s apart; a call made
\* less than 1200 s after the last real evaluation returns False, evaluates no
\* order and leaves last_check unchanged; a call made in mode normal when no
\* evaluation took place in the last 1200 s evaluates.
C14_EvaluationsRateLimited ==
    [][/\ \A a \in 1 .. Len(evalTimes') - 1 :
             evalTimes'[a + 1] - evalTimes'[a] >= MIN_STANDING_ORDER_INTERVAL
       /\ CallsMaybeLaunchCopies /\ EvaluatedRecently =>
             /\ lastCall'.ret = "False"
             /\ lastCall'.evaluated = << >>
             /\ last_check' = last_check
             /\ evalTimes' = evalTimes
       /\ CallsMaybeLaunchCopies /\ ~ EvaluatedRecently /\ mode = "normal" =>
             /\ lastCall'.ret # "False"
             /\ last_check' = clock
             /\ evalTimes' = Append(evalTimes, clock)]_vars

C14_Witness ==
    /\ mode = "normal"
    /\ Len(evalTimes) = 2
    /\ evalTimes[2] - evalTimes[1] = MIN_STANDING_ORDER_INTERVAL
    /\ lastCall.ret = "False"
    /\ last_check = evalTimes[2]

\* C15: at most one delayed evaluation is scheduled at any time, and a call of
\* queue_launch_copy while launch_queued is set schedules nothing and leaves
\* the manager's state as it was.
C15_OneDelayedEvaluation ==
    [][/\ Len(timeouts') <= 1
       /\ CallsQueueLaunchCopy /\ launch_queued =>
             /\ lastQueue'.was_queued
             /\ UNCHANGED << launch_queued, timeouts, last_check, storders,
                             evalTimes, lastCall >>]_vars

C15_Witness ==
    /\ lastQueue.was_queued
    /\ launch_queued
    /\ Len(timeouts) = 1
    /\ lastCall.ret = "False"
    /\ Head(timeouts) < clock + DEFAULT_STANDING_ORDER_DELAY

\* C16: no request is dropped: in mode normal, while a request made through
\* queue_launch_copy has not been followed by a real evaluation, a delayed
\* evaluation is scheduled.
C16_NoRequestDropped == mode = "normal" /\ unserved => timeouts # << >>

\* C32: launch_queued is set exactly when one delayed evaluation is scheduled
\* (a firing runs in one step, so between steps no callback is executing);
\* this holds after a firing in which the evaluation of an order raised, too.
C32_FlagMeansOneEvaluationPending == launch_queued <=> Len(timeouts) = 1

\* C17: a firing while rate-limited reports False, schedules exactly one
\* delayed evaluation 90 s later and keeps launch_queued set; launch_queued is
\* cleared only by a firing whose call reported True.
C17_SkippedFiringRequeues ==
    [][/\ CallsMaybeLaunchCopies /\ RateLimited => lastCall'.ret = "False"
       /\ CallsMaybeLaunchCopies /\ lastCall'.ret = "False" =>
             /\ timeouts' = << clock + DEFAULT_STANDING_ORDER_DELAY >>
             /\ launch_queued /\ launch_queued'
       /\ launch_queued /\ ~ launch_queued' =>
             CallsMaybeLaunchCopies /\ lastCall'.ret = "True"]_vars

C17_Witness ==
    /\ lastCall.ret = "False"
    /\ launch_queued
    /\ timeouts = << clock + DEFAULT_STANDING_ORDER_DELAY >>
    /\ Len(evalTimes) = 1
    /\ clock - evalTimes[1] >= 2 * DEFAULT_STANDING_ORDER_DELAY

\* The mode and the local hour under which a call that is not rate-limited
\* is to evaluate the orders.
ModeAllowsEvaluation ==
    \/ mode \notin {"disabled", "nighttime"}
    \/ mode = "nighttime" /\ (LocalHour < 8 \/ LocalHour >= 20)

C19_PersistedOrdersCompile ==
    \A k \in 1 .. Len(storders) : compile_search(storders[k].search)

C19_Witness ==
    /\ flashed.op = "update"
    /\ flashed.msg = "Updated"
    /\ compile_search(flashed.search)
    /\ \E k \in 1 .. Len(storders) :
          /\ storders[k].search = flashed.search
          /\ storders[k].search # default_search

\* C20: an update request whose new search does not compile leaves the
\* StandingOrder table as it was, flashes a failure message and makes no call
\* of queue_launch_copy.
C20_FailedUpdateChangesNothing ==
    [][/\ flashed'.n # flashed.n
       /\ flashed'.op = "update"
       /\ ~ compile_search(flashed'.search)
       => /\ storders' = storders
          /\ flashed'.msg \in {"Cannot update", "No such standing order"}
          /\ UNCHANGED << launch_queued, timeouts, lastQueue, unserved >>]_vars

C20_Witness ==
    /\ flashed.op = "update"
    /\ flashed.msg = "Cannot update"
    /\ ~ compile_search(flashed.search)
    /\ flashed.search.code # NotJson
    /\ flashed.search.hash = "none"
    /\ Len(storders) >= 1
    /\ ~ launch_queued

\* ================================= properties of create_clone.py, continued
\* The staging areas the run in progress reserved and has not unstaged.
HeldByRun == stagingAreas \cap RunRows

\* C27: within a run at most one staging area that the run reserved on clone_to
\* is outstanding at any moment.
C27_OneStagingAreaPerRun == Cardinality(HeldByRun) <= 1

\* The unstage calls made for the row `transfer`.
UnstageCalls == { k \in 1 .. Len(calls) : calls[k].op = "unstage" }

\* C31: when a run finishes, every staging area the run reserved with stage
\* has been released with unstage, exactly once, whatever became of the
\* instance it was reserved for: no area of the run is held at the end of
\* the run, and an attempt that is over and had reserved an area has called
\* unstage once.
C31_EveryStagingAreaReleasedOnce ==
    /\ pc = "summary" => HeldByRun = {}
    /\ InAttempt => Cardinality(UnstageCalls) <= 1
    /\ InAttempt /\ pc \in {"loop", "summary"} /\ HasCall("stage", "ok")
          => Cardinality(UnstageCalls) = 1

\* An earlier run left a row for source instance i PENDING or STAGED.
LeftOpen(i) ==
    \E t \in 1 .. Len(transfers) :
        /\ t \notin RunRows
        /\ transfers[t].source_instance_id = i
        /\ transfers[t].status \in {"PENDING", "STAGED"}

\* The attempt of row `transfer` is over, and the stores reported no capacity
\* and no transport failure to it, nor a conflict that came from elsewhere.
AttemptWithoutStoreFailure ==
    /\ InAttempt
    /\ pc \in {"loop", "summary"}
    /\ ~ HasCall("stage", "reject")
    /\ ~ HasCall("transfer_out", "false")
    /\ ~ HasCall("transfer_out", "notfound")
    /\ HasCall("commit", "exists") =>
          instances[transfers[transfer].source_instance_id].file \in orphans

\* C28: when a run attempts an instance for which an interrupted run left a
\* PENDING or STAGED row, and the stores report no failure, the attempt ends
\* with a COMPLETED row and an Instance of the File on clone_to.
C28_ResumableAfterCrash ==
    AttemptWithoutStoreFailure
      /\ LeftOpen(transfers[transfer].source_instance_id) =>
        /\ transfers[transfer].status = "COMPLETED"
        /\ HasInstanceOn(instances, clone_to,
               instances[transfers[transfer].source_instance_id].file)

\* C29: no store holds two Instances of the same File.
C29_OneInstancePerStoreAndFile ==
    \A i, j \in 1 .. Len(instances) :
        /\ instances[i].store = instances[j].store
        /\ instances[i].file = instances[j].file
        => i = j

C29_Witness ==
    /\ pc = "summary"
    /\ LastRun >= 2
    /\ \A f \in Files : /\ HasInstanceOn(instances, clone_from, f)
                        /\ HasInstanceOn(instances, clone_to, f)
    /\ \E i, j \in 1 .. Len(instances) :
          /\ instOrigin[i] # NULL /\ instOrigin[j] # NULL
          /\ instOrigin[i] \in RowsOfRun(1)
          /\ instOrigin[j] \in RowsOfRun(2)

\* ===================================================== properties of compile()
\* ------------------------------------------------------ shared definitions
\* The clauses of a search at every depth: the entries of the mapping itself,
\* of the mappings given to and, or and none-of, and of the mapping given to
\* obs-matches, each with the compiler that is asked to compile it.
\* What the clause table of a compiler holds under a name.
RegisteredAs(compiler, name) ==
    IF compiler = "obs" THEN ObsClauseImpl(name) ELSE ClauseImpl(name)

RECURSIVE ClausesOf(_, _)
ClausesOf(compiler, search) ==
    IF search.t # "dict"
    THEN {}
    ELSE UNION { LET name == search.items[k][1]
                     payload == search.items[k][2]
                     impl == RegisteredAs(compiler, name)
                 IN {<< compiler, name, payload >>}
                      \cup (CASE impl = "logical" -> ClausesOf(compiler, payload)
                              [] impl = "obs_matches" -> ClausesOf("obs", payload)
                              [] OTHER -> {})
                 : k \in 1 .. Len(search.items) }

\* The type a clause is declared with; a clause proxied to the observations
\* has the type the observation compiler gives it.
DeclaredType(cl) ==
    IF RegisteredAs(cl[1], cl[2]) = "obs_sub_query"
    THEN ObsClauseImpl(cl[2])
    ELSE RegisteredAs(cl[1], cl[2])

Finished == outcome \in {"compiled", "failed", "run"}

\* A JSON number; where the text of a claim does not say that a boolean is
\* none, it is let through.
IsJsonNumber(payload) == payload.t \in {"int", "float", "bool"}

\* A typed clause whose payload has not the declared type: a string clause
\* with anything but a string, an integer-equality clause with anything but an
\* integer (a boolean is no integer), a numeric comparison with anything but a
\* number, a range clause with anything but a list of exactly two numbers.
WrongType(cl) ==
    LET payload == cl[3]
    IN CASE DeclaredType(cl) = "str" -> payload.t # "unicode"
         [] DeclaredType(cl) = "int" -> payload.t # "int"
         [] DeclaredType(cl) = "num" -> ~IsJsonNumber(payload)
         [] DeclaredType(cl) = "range" ->
                ~ /\ payload.t = "list"
                  /\ Len(payload.items) = 2
                  /\ IsJsonNumber(payload.items[1])
                  /\ IsJsonNumber(payload.items[2])
         [] OTHER -> FALSE

\* C23: a search holding a typed clause whose payload has the wrong type (a
\* string clause given a non-string, an integer-equality clause given a
\* non-integer, a boolean included, a numeric comparison given a non-number, a
\* range clause given anything but a list of exactly two numbers) fails to
\* compile; no predicate is returned for it.
C23_WrongTypeFailsCompile ==
    Finished /\ (\E cl \in ClausesOf(query_type, the_search) : WrongType(cl))
        => outcome = "failed"

\* A clause no compiler asked registers, and a clause that takes a mapping but
\* is given something else or the empty mapping.
Unregistered(cl) == RegisteredAs(cl[1], cl[2]) = "unrecognized"
BadMapping(cl) ==
    /\ RegisteredAs(cl[1], cl[2]) \in {"logical", "obs_matches"}
    /\ (cl[3].t # "dict" \/ Len(cl[3].items) = 0)
NonEmptyMapping(search) == search.t = "dict" /\ Len(search.items) > 0

\* C24: compile fails whenever a clause name that the compiler asked does not
\* register occurs at any depth of the search, and the error it raises for an
\* unrecognized clause names such a clause of the search; it fails whenever
\* the search, or the payload of an and, or, none-of (or obs-matches) clause,
\* is not a non-empty mapping.  So a search that compiled holds no such
\* clause: none is dropped silently.
C24_MalformedSearchFails ==
    LET clauses == ClausesOf(query_type, the_search)
    IN Finished =>
        /\ (\E cl \in clauses : Unregistered(cl)) => outcome = "failed"
        /\ ~NonEmptyMapping(the_search) => outcome = "failed"
        /\ (\E cl \in clauses : BadMapping(cl)) => outcome = "failed"
        /\ outcome = "failed" /\ raised.kind = "unrecognized"
               => \E cl \in clauses : Unregistered(cl) /\ cl[2] = raised.clause
        /\ /\ NonEmptyMapping(the_search)
           /\ \E cl \in clauses : Unregistered(cl)
           /\ \A cl \in clauses :
                 ~BadMapping(cl) /\ clause_error(cl[1], cl[2], cl[3]).kind # "contents"
           => raised.kind = "unrecognized"

\* An unregistered clause two mappings deep made the compilation fail.
C24_Witness ==
    /\ the_search \in DeepSearches
    /\ outcome = "failed"
    /\ raised = ParseError("unrecognized", "name-resembles", "")

\* A search of one range clause over two numbers, and what it is about.
OneClause == the_search.t = "dict" /\ Len(the_search.items) = 1
RangeSearch ==
    /\ OneClause
    /\ RegisteredAs(query_type, the_search.items[1][1]) = "range"
    /\ the_search.items[1][2].t = "list"
    /\ Len(the_search.items[1][2].items) = 2
    /\ \A k \in 1 .. 2 : the_search.items[1][2].items[k].t \in {"int", "float"}
RangeEnd(k) == the_search.items[1][2].items[k].v
RangedValue(e) ==
    IF the_search.items[1][1] = "duration-in-range" THEN e.duration ELSE e.size
Swapped ==
    JDict(<< << the_search.items[1][1],
                JList(<< the_search.items[1][2].items[2],
                         the_search.items[1][2].items[1] >>) >> >>)

\* C25: an in-range clause over [a, b] selects a row exactly when
\* min(a, b) <= v <= max(a, b) for its value v, a not-in-range clause selects
\* exactly the rows the in-range clause does not, and the clause with a and b
\* swapped selects the same rows.
C25_RangeIsClosedAndSymmetric ==
    outcome = "run" /\ RangeSearch =>
        LET lo == IF RangeEnd(1) <= RangeEnd(2) THEN RangeEnd(1) ELSE RangeEnd(2)
            hi == IF RangeEnd(1) <= RangeEnd(2) THEN RangeEnd(2) ELSE RangeEnd(1)
            within == { e \in TableOf(query_type) :
                          lo <= RangedValue(e) /\ RangedValue(e) <= hi }
        IN /\ rows = IF the_search.items[1][1] = "size-not-in-range"
                     THEN TableOf(query_type) \ within
                     ELSE within
           /\ rows = Select(query_type, Swapped)

\* A range given with its larger end first selected some rows and left others.
C25_Witness ==
    /\ outcome = "run"
    /\ RangeSearch
    /\ RangeEnd(1) > RangeEnd(2)
    /\ rows # {}
    /\ rows # TableOf(query_type)

\* A search of one none-of clause over a non-empty mapping, the mapping, and
\* the search that gives the same mapping to another logical clause.
NoneOfSearch ==
    /\ OneClause
    /\ the_search.items[1][1] = "none-of"
    /\ NonEmptyMapping(the_search.items[1][2])
Under(name, clauses) == JDict(<< << name, clauses >> >>)
HoldsOne(clauses, k, e) ==
    holds(query_type, clauses.items[k][1], clauses.items[k][2], e)

\* C26: for a non-empty mapping C, none-of(C) compiles exactly when or(C)
\* does and selects exactly the rows or(C) does not select, which are the
\* rows of which no clause of C holds; a search that is the mapping C itself
\* compiles and selects as and(C) does: the rows of which every clause holds.
C26_NoneOfIsNotOrAndTopIsAnd ==
    /\ Finished /\ NoneOfSearch =>
          LET clauses == the_search.items[1][2]
          IN /\ outcome = "failed" <=>
                    compile_error(query_type, Under("or", clauses)) # NoError
             /\ outcome = "run" =>
                  /\ rows = TableOf(query_type)
                               \ Select(query_type, Under("or", clauses))
                  /\ rows = { e \in TableOf(query_type) :
                                \A k \in 1 .. Len(clauses.items) :
                                    ~HoldsOne(clauses, k, e) }
    /\ Finished /\ NonEmptyMapping(the_search) =>
          /\ outcome = "failed" <=>
                 compile_error(query_type, Under("and", the_search)) # NoError
          /\ outcome = "run" =>
               /\ rows = Select(query_type, Under("and", the_search))
               /\ rows = { e \in TableOf(query_type) :
                             \A k \in 1 .. Len(the_search.items) :
                                 HoldsOne(the_search, k, e) }

\* A none-of over two clauses selected some rows and left others.
C26_Witness ==
    /\ outcome = "run"
    /\ NoneOfSearch
    /\ Len(the_search.items[1][2].items) = 2
    /\ rows # {}
    /\ rows # TableOf(query_type)

\* =========================================== properties of get_files_to_copy
\* The copy tasks of the evaluated order for File f in the active task list,
\* and whether one is in flight or finished without exception.
CopyTasksFor(f) ==
    { k \in 1 .. Len(active_tasks) :
        /\ active_tasks[k].kind = "UploaderTask"
        /\ active_tasks[k].standing_order_name = so_row.name
        /\ active_tasks[k].store_path[2] = f.name }
Unfailed(k) == active_tasks[k].exception = None
MatchesOrder(f) == holds("files", "and", so_row.search.code, f)
MarkedDone(f) ==
    << f.name, << "standing_order_succeeded", so_row.name >> >> \in file_events

\* C21: get_files_to_copy yields exactly the Files that match the order's
\* compiled search, bear no FileEvent standing_order_succeeded:<order name>,
\* and have no copy task of this order in the active task list that is in
\* flight or finished without exception; a File whose only tasks for the
\* order ended in an exception is yielded again.
C21_YieldsUncopiedMatches ==
    copy_pc = "done" =>
        /\ yielded \subseteq CopyTable
        /\ \A f \in CopyTable :
              f \in yielded <=>
                  /\ MatchesOrder(f)
                  /\ ~MarkedDone(f)
                  /\ \A k \in CopyTasksFor(f) : ~Unfailed(k)
        /\ \A f \in CopyTable :
              /\ MatchesOrder(f)
              /\ ~MarkedDone(f)
              /\ CopyTasksFor(f) # {}
              /\ \A k \in CopyTasksFor(f) : ~Unfailed(k)
              => f \in yielded

\* One evaluation yielded a File whose copy task had failed and held back a
\* matching File whose copy task had not, and one that bears the event.
C21_Witness ==
    /\ copy_pc = "done"
    /\ \E f \in yielded : CopyTasksFor(f) # {}
    /\ \E f \in CopyTable \ yielded :
          MatchesOrder(f) /\ ~MarkedDone(f) /\ \E k \in CopyTasksFor(f) : Unfailed(k)
    /\ \E f \in CopyTable \ yielded : MatchesOrder(f) /\ MarkedDone(f)

\* ======================================= properties of the background tasks
\* The callbacks of task t that wait in the control loop's queue, and the
\* arguments the wrapup of a finished task is due.
Pending(t) == { k \in 1 .. Len(callbacks) : callbacks[k].task = t }
Finish(t) == bg_tasks[t].state \in {"returned", "raised"}
OutcomeOf(t) ==
    IF bg_tasks[t].state = "returned"
    THEN << "result", None >>
    ELSE << None, "exception" >>

\* C22: for every task started with launch_background_task the wrapup is
\* scheduled onto the control loop exactly once, when the background function
\* has finished, with (result, no fault) if it returned and (no result, the
\* fault) if it raised; the wrapup runs on the control thread only, never on
\* the worker thread, and at most once.
C22_WrapupScheduledOnceOnControl ==
    \A t \in TaskIds :
        /\ bg_tasks[t].scheduled = IF Finish(t) THEN 1 ELSE 0
        /\ Cardinality(Pending(t)) + bg_tasks[t].wrapped = bg_tasks[t].scheduled
        /\ \A k \in Pending(t) :
              << callbacks[k].result, callbacks[k].exc >> = OutcomeOf(t)
        /\ bg_tasks[t].wrapped > 0 =>
              /\ bg_tasks[t].ran_on = "control"
              /\ bg_tasks[t].delivered = OutcomeOf(t)
        /\ bg_tasks[t].wrapped = 0 => bg_tasks[t].ran_on = None

\* The wrapup of a task that returned and that of a task that raised both ran,
\* and a third task's wrapup waits in the queue.
C22_Witness ==
    /\ \E t \in TaskIds : bg_tasks[t].state = "returned" /\ bg_tasks[t].wrapped = 1
    /\ \E t \in TaskIds : bg_tasks[t].state = "raised" /\ bg_tasks[t].wrapped = 1
    /\ \E t \in TaskIds : Pending(t) # {}

\* C30: every task that was launched has its outcome delivered, the tasks
\* that are in flight when the control loop stops included: when
\* maybe_wait_for_threads_to_finish has returned and the process ends, the
\* wrapup of every launched task has run on the control thread, no task is in
\* flight any more, and the pool takes no more work.
C30_OutcomeDeliveredBeforeExit ==
    main_pc = "exited" =>
        /\ \A t \in TaskIds :
              bg_tasks[t].wrapped = 1 /\ bg_tasks[t].ran_on = "control"
        /\ InFlight = {}
        /\ worker_pool # "open"

====
